---- MODULE Spec2Model ----
(***************************************************************************)
(* EnhancedLogRouter (src/src/python/log_router/enhanced_router.py):       *)
(* rule loading, first-match routing, the transformation pipeline, the     *)
(* per-record task group of route_logs and the per-destination retry loop  *)
(* of _send_to_destinations.                                               *)
(*                                                                         *)
(* Python dicts are functions whose DOMAIN is the set of keys present.     *)
(* Log records are flat here: every top-level value is a string.  asyncio  *)
(* is cooperative: a task runs until an await that really suspends, so     *)
(* _process_log (whose awaits are all on coroutines that do no I/O) is one *)
(* step of its task, and a sender task yields at each sink call and sleep. *)
(***************************************************************************)
EXTENDS Integers, Sequences, FiniteSets, TLC

VARIABLES
    phase,          \* position of the caller: constructed, ready, processing, dispatch, returned, dispatched, raised
    config,         \* self.config['rules']: the rule definitions handed to _load_rules
    rules,          \* self.rules
    destinations,   \* keys of self.destinations (destination types with a registered sink)
    metrics,        \* self.metrics: bucket -> counter name -> int
    clock,          \* the hour datetime.utcnow() last answered
    logs,           \* route_logs' argument
    tasks,          \* processing_tasks: one task per record of logs
    routed_logs,    \* route_logs' routed_logs / _send_to_destinations' argument
    senders,        \* the tasks of _send_to_destinations' TaskGroup, by destination
    calls,          \* every sink invocation so far, by destination: the list it got and how it ended
    caller,         \* which public call is in progress: route_logs, or _send_to_destinations alone
    result,         \* what route_logs returned
    heap,           \* the dict objects nested in log records, by reference
    context,        \* _apply_transformations' TransformationContext
    step,           \* position of _apply_transformations' loop in route.transformations
    applied,        \* the working record and the heap before that loop and after each turn
    returned_log,   \* what _apply_transformations returned
    ip_log,         \* transform_ip_anonymize's log argument
    ip_transform,   \* transform_ip_anonymize's transform argument
    ip_result,      \* what transform_ip_anonymize returned
    performance_data,   \* RouterMonitoring.performance_data
    utcnow,         \* the instant datetime.utcnow() answers to RouterMonitoring
    prometheus,     \* RouterMonitoring's Prometheus collectors, by label values
    report,         \* what generate_performance_report returned, once it has
    query,          \* optimize_query's argument
    optimized_query,        \* optimize_query's optimized_query
    optimization_details,   \* optimize_query's optimization_details
    kql_pc,         \* position of optimize_query
    kql_calls,      \* the calls optimize_query has made: method, argument, what it returned
    cache,          \* EnhancedLogRouter.cache: geo data by IP address
    geo_tasks,      \* the tasks running _transform_geoip_enrich, one per record
    lookup_calls    \* the IP addresses _lookup_geoip was called with, in call order

routerVars == <<phase, config, rules, destinations, metrics, clock, logs, tasks,
                routed_logs, senders, calls, caller, result>>
pipelineVars == <<heap, context, step, applied, returned_log>>
anonymizeVars == <<ip_log, ip_transform, ip_result>>
monitorVars == <<performance_data, prometheus, utcnow, report>>
kqlVars == <<query, optimized_query, optimization_details, kql_pc, kql_calls>>
geoVars == <<cache, geo_tasks, lookup_calls>>

vars == <<routerVars, pipelineVars, anonymizeVars, monitorVars, kqlVars, geoVars>>

----------------------------------------------------------------------------
(* Bounds of the model *)

MaxRules == 3       \* rule definitions in a configuration
MaxBatch == 2       \* records in one route_logs call
MaxSteps == 3       \* transformation steps of a pipeline run
MaxFields == 2      \* field paths listed in an ip_anonymize step

(* Program constants *)

max_retries == 3    \* _send_with_retry(max_retries=3)
backoff_num == 3    \* backoff_factor = 1.5 = backoff_num / backoff_den
backoff_den == 2

----------------------------------------------------------------------------
(* Python values *)

EmptyDict == <<>>
PyNone == "<None>"
NoResult == <<>>            \* _process_log returning None
Bytes == "b'\\x00'"         \* str() of a bytes value: a value json.dumps rejects
NonSerializable == {Bytes}

Has(d, k) == k \in DOMAIN d
Get(d, k, default) == IF k \in DOMAIN d THEN d[k] ELSE default
Put(d, k, v) == (k :> v) @@ d
Pop(d, k) == [x \in DOMAIN d \ {k} |-> d[x]]

RECURSIVE Repeat(_, _)
Repeat(s, n) == IF n = 0 THEN "" ELSE s \o Repeat(s, n - 1)

RECURSIVE Power(_, _)
Power(b, n) == IF n = 0 THEN 1 ELSE b * Power(b, n - 1)

(* path.split('.') for the field paths the rule pool uses *)
Split(path) ==
    CASE path = "user.name" -> <<"user", "name">>
      [] path = "user.email" -> <<"user", "email">>
      [] path = "user.name.first" -> <<"user", "name", "first">>
      [] OTHER -> <<path>>

----------------------------------------------------------------------------
(* Inputs: rule definitions, records, destination types *)

DestTypes == {"ArchiveStorage", "Kafka"}

CondEquals == [field |-> "host", operator |-> "equals", value |-> "h1"]
CondExists == [field |-> "host", operator |-> "exists"]
CondUnknown == [field |-> "host", operator |-> "frobnicate", value |-> "h1"]
CondNoField == [operator |-> "equals", value |-> "h1"]

StepMaskSsn == [type |-> "field_mask", field |-> "ssn"]
StepRenameHost == [type |-> "field_rename", old_field |-> "host", new_field |-> "device"]
StepRenameNested == [type |-> "field_rename", old_field |-> "user.name", new_field |-> "uname"]
StepTimestamp == [type |-> "timestamp_convert", field |-> "ts"]
StepEncrypt == [type |-> "encrypt", field |-> "ssn"]

CfgPii ==
    [name |-> "pii", conditions |-> <<CondEquals, CondUnknown>>,
     transformations |-> <<StepMaskSsn, StepRenameHost>>,
     destination |-> [type |-> "ArchiveStorage"], priority |-> 1,
     metadata |-> [classification |-> "restricted"]]
CfgAudit ==
    [name |-> "audit", conditions |-> <<>>,
     transformations |-> <<StepTimestamp, StepEncrypt, StepRenameNested>>,
     destination |-> [type |-> "Kafka"], priority |-> 1, enabled |-> TRUE,
     metadata |-> [compliance |-> "sox"]]
CfgLegacy ==
    [name |-> "legacy", conditions |-> <<CondEquals>>,
     transformations |-> <<StepRenameHost>>,
     destination |-> [type |-> "Kafka"], priority |-> 0, enabled |-> FALSE]
CfgExists ==
    [name |-> "exists", conditions |-> <<CondExists>>,
     transformations |-> <<StepMaskSsn>>,
     destination |-> [type |-> "ArchiveStorage"], priority |-> 0]

RulePool == {CfgPii, CfgAudit, CfgLegacy, CfgExists}

(* a rule whose condition names no field: evaluating it raises KeyError *)
CfgMalformed ==
    [name |-> "malformed", conditions |-> <<CondNoField>>,
     transformations |-> <<>>,
     destination |-> [type |-> "Kafka"], priority |-> 0]

(* definitions RoutingRule(...) rejects: a required field is missing, or a *)
(* key is no field of the dataclass                                        *)
CfgNoDestination ==
    [name |-> "nodest", conditions |-> <<>>, transformations |-> <<>>, priority |-> 0]
CfgUnknownField ==
    [name |-> "owner", conditions |-> <<>>, transformations |-> <<>>,
     destination |-> [type |-> "Kafka"], priority |-> 2, owner |-> "soc"]

(* rule configurations: lists of definitions with distinct names *)
Configs ==
    {c \in UNION {[1..n -> RulePool] : n \in 0..MaxRules} :
        \A i, j \in DOMAIN c : i # j => c[i].name # c[j].name}

(* configurations that may hold definitions which fail to load *)
LoadConfigs ==
    {c \in UNION {[1..n -> RulePool \cup {CfgNoDestination, CfgUnknownField}] :
                     n \in 0..MaxRules} :
        \A i, j \in DOMAIN c : i # j => c[i].name # c[j].name}

(* configurations that may hold the rule with the malformed condition *)
MatchConfigs ==
    {c \in UNION {[1..n -> {CfgMalformed, CfgAudit, CfgPii}] : n \in 0..MaxRules} :
        \A i, j \in DOMAIN c : i # j => c[i].name # c[j].name}

(* the steps a pipeline run draws from *)
StepRenameDeeper ==
    [type |-> "field_rename", old_field |-> "user.name", new_field |-> "user.name.first"]
StepMaskEmail == [type |-> "field_mask", field |-> "user.email", mask_char |-> "#"]
StepNoType == [field |-> "ssn"]
StepRenameNoTarget == [type |-> "field_rename", old_field |-> "host"]

StepPool ==
    {StepMaskSsn, StepRenameHost, StepRenameNested, StepRenameDeeper, StepMaskEmail,
     StepTimestamp, StepEncrypt, StepNoType, StepRenameNoTarget}

StepLists == UNION {[1..n -> StepPool] : n \in 0..MaxSteps}

Rec1 == [host |-> "h1", ssn |-> "123"]
Rec2 == [host |-> "h2"]
Rec3 == [host |-> "h3", blob |-> Bytes]
RecordPool == {Rec1, Rec2, Rec3}

Batches == UNION {[1..n -> RecordPool] : n \in 0..MaxBatch}

(* records with a nested dict, and the heap that holds it *)
NestedHeap == "@1" :> [name |-> "bob", email |-> "b@x"]
PipelineInputs ==
    {[heap |-> EmptyDict, log |-> Rec1],
     [heap |-> EmptyDict, log |-> [user |-> "u1", ssn |-> "123"]],
     [heap |-> NestedHeap, log |-> [host |-> "h1", user |-> "@1"]],
     [heap |-> NestedHeap, log |-> [user |-> "@1", ssn |-> "123"]]}

(* the hours utcnow() may answer: a run stays within one hour *)
Hours == {0}

(* the hours of a run that goes on past the end of the hour *)
LaterHours == {0, 1}

(* arguments of a direct _send_to_destinations call *)
DirectMaps ==
    {[d \in S |-> <<Rec2>>] : S \in SUBSET (DestTypes \cup {"Elasticsearch"})} \ {EmptyDict}

(* how one sink invocation may end: it returns True, returns False, or raises *)
SinkOutcomes == {"ok", "false", "raise"}

----------------------------------------------------------------------------
(* RoutingRule and _load_rules *)

RuleFields ==
    {"name", "conditions", "transformations", "destination", "priority",
     "enabled", "metadata", "performance_metrics"}
RequiredFields == {"name", "conditions", "transformations", "destination", "priority"}

(* constructing a RoutingRule from the definition's keys raises TypeError on a *)
(* missing or an unknown field                                                 *)
ConstructionFails(rule_config) ==
    ~(RequiredFields \subseteq DOMAIN rule_config /\ DOMAIN rule_config \subseteq RuleFields)

RoutingRule(rule_config) ==
    [name |-> rule_config.name,
     conditions |-> rule_config.conditions,
     transformations |-> rule_config.transformations,
     destination |-> rule_config.destination,
     priority |-> rule_config.priority,
     enabled |-> Get(rule_config, "enabled", TRUE),
     metadata |-> Get(rule_config, "metadata", EmptyDict),
     performance_metrics |-> Get(rule_config, "performance_metrics", EmptyDict)]

(* _validate_rule is a stub that accepts every rule *)
ValidateRuleFails(rule) == FALSE

(* a loading loop that gives up at the first definition that fails *)
RECURSIVE AppendUntilInvalid(_, _)
AppendUntilInvalid(loaded, rule_configs) ==
    IF rule_configs = <<>> THEN loaded
    ELSE IF ConstructionFails(Head(rule_configs)) THEN loaded
         ELSE AppendUntilInvalid(Append(loaded, RoutingRule(Head(rule_configs))),
                                 Tail(rule_configs))

(* the loading loop: a definition that fails is logged and left out *)
RECURSIVE AppendValid(_, _)
AppendValid(loaded, rule_configs) ==
    IF rule_configs = <<>> THEN loaded
    ELSE LET rule_config == Head(rule_configs) IN
         IF ConstructionFails(rule_config) THEN AppendValid(loaded, Tail(rule_configs))
         ELSE IF ValidateRuleFails(RoutingRule(rule_config))
              THEN AppendValid(loaded, Tail(rule_configs))
              ELSE AppendValid(Append(loaded, RoutingRule(rule_config)), Tail(rule_configs))

(* list.sort(key=priority) is stable: an element goes after the elements *)
(* already placed whose key is lower or equal                            *)
InsertUnstable(sorted, rule) ==
    LET k == Cardinality({i \in DOMAIN sorted : sorted[i].priority < rule.priority})
    IN  SubSeq(sorted, 1, k) \o <<rule>> \o SubSeq(sorted, k + 1, Len(sorted))

InsertByPriority(sorted, rule) ==
    LET k == Cardinality({i \in DOMAIN sorted : sorted[i].priority <= rule.priority})
    IN  SubSeq(sorted, 1, k) \o <<rule>> \o SubSeq(sorted, k + 1, Len(sorted))

RECURSIVE SortFrom(_, _)
SortFrom(sorted, rest) ==
    IF rest = <<>> THEN sorted
    ELSE SortFrom(InsertByPriority(sorted, Head(rest)), Tail(rest))

SortByPriority(rule_list) == SortFrom(<<>>, rule_list)

----------------------------------------------------------------------------
(* Dot-path helpers.  A record is its top-level dict; a value that is a   *)
(* dict is a reference into the heap, so that two records which hold the  *)
(* same nested dict (a shallow copy and its original) see each other's    *)
(* writes to it.                                                          *)

Top == "<log>"              \* where the record's own top-level dict is

IsDict(h, value) == value \in DOMAIN h

(* the reference of the next dict object created *)
NewRef(h) == "@" \o ToString(Cardinality(DOMAIN h) + 1)

(* the loop of _get_nested_value from `current` on, over the heap h *)
RECURSIVE GetFrom(_, _, _)
GetFrom(h, current, parts) ==
    LET part == Head(parts) IN
    IF part \notin DOMAIN current THEN PyNone
    ELSE IF Len(parts) = 1 THEN current[part]
         ELSE IF IsDict(h, current[part]) THEN GetFrom(h, h[current[part]], Tail(parts))
              ELSE PyNone

GetNestedValue(obj, path) == GetFrom(heap, obj, Split(path))

(* the loop of _set_nested_value from the dict at `cur` on: a segment that *)
(* is missing or holds no dict gets a new empty dict; the last segment is  *)
(* assigned.  The record and the heap as the call leaves them.             *)
RECURSIVE SetFrom(_, _, _, _, _)
SetFrom(h, obj, cur, parts, value) ==
    LET current == IF cur = Top THEN obj ELSE h[cur]
        part == Head(parts)
        store(v) == IF cur = Top
                    THEN [log |-> Put(obj, part, v), heap |-> h]
                    ELSE [log |-> obj, heap |-> [h EXCEPT ![cur] = Put(@, part, v)]]
    IN  IF Len(parts) = 1 THEN store(value)
        ELSE IF part \in DOMAIN current /\ IsDict(h, current[part])
             THEN SetFrom(h, obj, current[part], Tail(parts), value)
             ELSE LET fresh == NewRef(h)
                      made == store(fresh)
                  IN  SetFrom(Put(made.heap, fresh, EmptyDict), made.log, fresh,
                              Tail(parts), value)

SetNested(obj, path, value) == SetFrom(heap, obj, Top, Split(path), value)

SetNestedValue(obj, path, value) == SetNested(obj, path, value).log

(* _remove_nested_field is a stub: it removes nothing *)
RemoveNestedField(obj, path) == obj

----------------------------------------------------------------------------
(* Rule matching *)

(* _apply_condition is a stub: every operator holds of every value *)
ApplyCondition(field_value, operator, condition_value) == TRUE

(* one turn of _evaluate_conditions' loop; a missing key raises KeyError, *)
(* which the loop catches and answers False                               *)
EvaluateCondition(log, condition) ==
    IF ~Has(condition, "field") THEN FALSE
    ELSE LET field_value == GetNestedValue(log, condition.field) IN
         IF ~Has(condition, "operator") \/ ~Has(condition, "value") THEN FALSE
         ELSE ApplyCondition(field_value, condition.operator, condition.value)

RECURSIVE EvaluateConditions(_, _)
EvaluateConditions(log, conditions) ==
    IF conditions = <<>> THEN TRUE
    ELSE IF ~EvaluateCondition(log, Head(conditions)) THEN FALSE
         ELSE EvaluateConditions(log, Tail(conditions))

SkippedNever(rule) == FALSE

(* `if not rule.enabled: continue` *)
Skipped(rule) == ~rule.enabled

(* a search that ends with None at the first rule whose evaluation raised *)
RECURSIVE FindFromAborts(_, _, _)
FindFromAborts(rule_list, log, i) ==
    IF i > Len(rule_list) THEN 0
    ELSE IF Skipped(rule_list[i]) THEN FindFromAborts(rule_list, log, i + 1)
         ELSE IF \E c \in DOMAIN rule_list[i].conditions :
                     ~({"field", "operator", "value"}
                           \subseteq DOMAIN rule_list[i].conditions[c])
              THEN 0
              ELSE IF EvaluateConditions(log, rule_list[i].conditions) THEN i
                   ELSE FindFromAborts(rule_list, log, i + 1)

(* the index in rule_list of the rule _find_matching_rule returns, 0 for None *)
RECURSIVE FindFrom(_, _, _)
FindFrom(rule_list, log, i) ==
    IF i > Len(rule_list) THEN 0
    ELSE IF Skipped(rule_list[i]) THEN FindFrom(rule_list, log, i + 1)
         ELSE IF EvaluateConditions(log, rule_list[i].conditions) THEN i
              ELSE FindFrom(rule_list, log, i + 1)

FindMatchingRule(rule_list, log) == FindFrom(rule_list, log, 1)

----------------------------------------------------------------------------
(* The transformer registry and the pipeline *)

Transformers ==
    {"field_rename", "field_mask", "field_extract", "field_combine", "value_map",
     "timestamp_convert", "geoip_enrich", "regex_extract"}

TransformFieldRename(log, transform) ==
    LET old_field == transform.old_field
        new_field == transform.new_field
    IN  IF Len(Split(old_field)) > 1
        THEN LET value == GetNestedValue(log, old_field) IN
             IF value # PyNone
             THEN RemoveNestedField(SetNestedValue(log, new_field, value), old_field)
             ELSE log
        ELSE IF old_field \in DOMAIN log
             THEN Put(Pop(log, old_field), new_field, log[old_field])
             ELSE log

(* no step of the pool gives a pattern: the full mask, mask_char * len(str(value)) *)
TransformFieldMask(log, transform) ==
    LET field == transform.field
        mask_char == Get(transform, "mask_char", "*")
        value == GetNestedValue(log, field)
    IN  IF value # PyNone
        THEN SetNestedValue(log, field, Repeat(mask_char, Len(value)))
        ELSE log

(* the heap as _transform_field_rename leaves it *)
RenameHeap(log, transform) ==
    LET value == GetNestedValue(log, transform.old_field) IN
    IF Len(Split(transform.old_field)) > 1 /\ value # PyNone
    THEN SetNested(log, transform.new_field, value).heap
    ELSE heap

(* the heap as _transform_field_mask leaves it *)
MaskHeap(log, transform) ==
    LET value == GetNestedValue(log, transform.field) IN
    IF value # PyNone
    THEN SetNested(log, transform.field,
                   Repeat(Get(transform, "mask_char", "*"), Len(value))).heap
    ELSE heap

(* a transformer raises KeyError when its step lacks a parameter it reads *)
TransformerRaises(log, transform) ==
    CASE transform.type = "field_rename" ->
            ~Has(transform, "old_field") \/ ~Has(transform, "new_field")
      [] transform.type = "field_mask" -> ~Has(transform, "field")
      [] OTHER -> FALSE

(* the registered function; the extract, combine, value_map, timestamp and *)
(* regex transformers are stubs that return the log as it is               *)
Transformer(log, transform) ==
    CASE transform.type = "field_rename" -> TransformFieldRename(log, transform)
      [] transform.type = "field_mask" -> TransformFieldMask(log, transform)
      [] transform.type \in {"field_extract", "field_combine", "value_map",
                             "timestamp_convert", "regex_extract"} -> log

(* a turn that falls back to the original record when the step fails *)
ApplyStepRollback(transformed_log, transform) ==
    IF ~Has(transform, "type") THEN context.original_log
    ELSE IF transform.type \notin Transformers THEN context.original_log
         ELSE IF TransformerRaises(transformed_log, transform) THEN context.original_log
              ELSE Transformer(transformed_log, transform)

(* one turn of _apply_transformations' loop *)
ApplyStep(transformed_log, transform) ==
    IF ~Has(transform, "type") THEN transformed_log
    ELSE IF transform.type \notin Transformers THEN transformed_log
         ELSE IF TransformerRaises(transformed_log, transform) THEN transformed_log
              ELSE Transformer(transformed_log, transform)

(* the heap after that turn *)
StepHeap(transformed_log, transform) ==
    IF ~Has(transform, "type") THEN heap
    ELSE IF transform.type \notin Transformers THEN heap
         ELSE IF TransformerRaises(transformed_log, transform) THEN heap
              ELSE CASE transform.type = "field_rename" -> RenameHeap(transformed_log, transform)
                     [] transform.type = "field_mask" -> MaskHeap(transformed_log, transform)
                     [] OTHER -> heap

RECURSIVE ApplySteps(_, _)
ApplySteps(transformed_log, transformations) ==
    IF transformations = <<>> THEN transformed_log
    ELSE ApplySteps(ApplyStep(transformed_log, Head(transformations)), Tail(transformations))

ApplyTransformations(rule, log) == ApplySteps(log, rule.transformations)

(* _enrich_log; t['type'] raises KeyError for a step without a type *)
EnrichLogRaises(rule) ==
    \E i \in DOMAIN rule.transformations : ~Has(rule.transformations[i], "type")

EnrichLog(log, rule, now) ==
    LET base == [route_name |-> rule.name,
                 routing_time |-> now,
                 transformations_applied |->
                     [i \in DOMAIN rule.transformations |-> rule.transformations[i].type]]
        withCompliance ==
            IF Has(rule.metadata, "compliance")
            THEN Put(base, "compliance", rule.metadata.compliance) ELSE base
        withClassification ==
            IF Has(rule.metadata, "classification")
            THEN Put(withCompliance, "classification", rule.metadata.classification)
            ELSE withCompliance
    IN  Put(log, "_metadata", withClassification)

----------------------------------------------------------------------------
(* Metrics *)

Bucket(now) == now              \* strftime('%Y-%m-%d-%H'): the hour

Counter(m, bucket, name) == Get(Get(m, bucket, EmptyDict), name, 0)
Increment(m, bucket, name) ==
    Put(m, bucket, Put(Get(m, bucket, EmptyDict), name, Counter(m, bucket, name) + 1))

(* json.dumps raises TypeError on a value it cannot serialize *)
JsonDumpsRaises(log) ==
    \E k \in DOMAIN log \ {"_metadata"} : log[k] \in NonSerializable

MatchCounter(rule) == "rule_" \o rule.name \o "_matches"

(* _update_metrics as far as it gets: total_logs is counted before json.dumps *)
(* runs.  The total_bytes counter itself is not tracked.                      *)
UpdateMetricsCounters(m, rule, log, now) ==
    LET counted == Increment(m, Bucket(now), "total_logs") IN
    IF JsonDumpsRaises(log) THEN counted
    ELSE Increment(counted, Bucket(now), MatchCounter(rule))

UpdatePerformance(rule, now) ==
    [rule EXCEPT !.performance_metrics =
        Put(Put(@, "processed_logs", Get(@, "processed_logs", 0) + 1),
            "last_processed", now)]


----------------------------------------------------------------------------
(* asyncio.TaskGroup: when a task ends with an exception, the tasks of the *)
(* group that have not finished are cancelled; leaving the `async with`    *)
(* block waits for every task and re-raises the exceptions as a group.     *)

Finished(task) == task.pc \notin {"pending", "attempt", "sleeping"}

TaskGroupSettle(group) ==
    IF \E k \in DOMAIN group : group[k].pc = "raised"
    THEN [k \in DOMAIN group |->
             IF Finished(group[k]) THEN group[k] ELSE [group[k] EXCEPT !.pc = "cancelled"]]
    ELSE group

JoinedTooEarly(group) == \E k \in DOMAIN group : Finished(group[k])

Joined(group) == \A k \in DOMAIN group : Finished(group[k])

GroupRaised(group) == \E k \in DOMAIN group : group[k].pc = "raised"

----------------------------------------------------------------------------
(* route_logs and _process_log *)

ProcessLogPropagates == [pc |-> "raised", result |-> NoResult]

(* _process_log's `except Exception`: the error is logged, the task returns None *)
ProcessLogOnError == [pc |-> "done", result |-> NoResult]

ProcessLogReturns(value) == [pc |-> "done", result |-> value]

(* the grouping loop of route_logs over processing_tasks, in task order *)
RECURSIVE GroupFromPrepend(_, _, _)
GroupFromPrepend(routed, task_list, i) ==
    IF i > Len(task_list) THEN routed
    ELSE LET res == task_list[i].result IN
         IF res # NoResult
         THEN GroupFromPrepend(
                  Put(routed, res[1], <<res[2]>> \o Get(routed, res[1], <<>>)),
                  task_list, i + 1)
         ELSE GroupFromPrepend(routed, task_list, i + 1)

RECURSIVE GroupFrom(_, _, _)
GroupFrom(routed, task_list, i) ==
    IF i > Len(task_list) THEN routed
    ELSE LET res == task_list[i].result IN
         IF res # NoResult
         THEN GroupFrom(Put(routed, res[1], Append(Get(routed, res[1], <<>>), res[2])),
                        task_list, i + 1)
         ELSE GroupFrom(routed, task_list, i + 1)

(* a grouping that keeps only the last record of each destination *)
GroupResultsOverwrite(task_list) ==
    LET routed == {i \in DOMAIN task_list : task_list[i].result # NoResult}
        routed_to == {task_list[i].result[1] : i \in routed}
    IN  [d \in routed_to |->
            LET to_d == {i \in routed : task_list[i].result[1] = d}
                last == CHOOSE i \in to_d : \A j \in to_d : j <= i
            IN  <<task_list[last].result[2]>>]

GroupResults(task_list) == GroupFrom(EmptyDict, task_list, 1)

ReturnRegisteredOnly(routed) ==
    [d \in DOMAIN routed \cap destinations |-> routed[d]]

(* `return dict(routed_logs)` *)
ReturnValue(routed) == routed

----------------------------------------------------------------------------
(* _send_to_destinations and _send_with_retry *)

RetryExhaustedEarly(retry_count) == retry_count >= max_retries - 1

(* `if retry_count == max_retries` *)
RetryExhausted(retry_count) == retry_count = max_retries

LoopStopsEarly(retry_count) == retry_count < max_retries - 1

(* `while retry_count < max_retries` *)
LoopContinues(retry_count) == retry_count < max_retries

WaitTimeLinear(retry_count) == <<backoff_num * retry_count, backoff_den>>

(* backoff_factor ** retry_count, as a fraction *)
WaitTime(retry_count) ==
    <<Power(backoff_num, retry_count), Power(backoff_den, retry_count)>>

NewSender(batch) == [pc |-> "attempt", retry_count |-> 0, logs |-> batch, wait |-> <<0, 1>>]

(* a retry loop that leaves out of the next call the record it tried first *)
AfterAttemptRest(sender, outcome) ==
    IF outcome # "raise" THEN [sender EXCEPT !.pc = "sent"]
    ELSE LET retry_count == sender.retry_count + 1 IN
         IF RetryExhausted(retry_count)
         THEN [sender EXCEPT !.retry_count = retry_count, !.pc = "gave_up"]
         ELSE [sender EXCEPT !.retry_count = retry_count, !.pc = "sleeping",
                             !.wait = WaitTime(retry_count), !.logs = Tail(@)]

(* the body of the retry loop after `await sender(logs)`: a return, whatever *)
(* its value, breaks out; an exception counts a retry, then gives up with an *)
(* error log or sleeps                                                       *)
AfterAttempt(sender, outcome) ==
    IF outcome # "raise" THEN [sender EXCEPT !.pc = "sent"]
    ELSE LET retry_count == sender.retry_count + 1 IN
         IF RetryExhausted(retry_count)
         THEN [sender EXCEPT !.retry_count = retry_count, !.pc = "gave_up"]
         ELSE [sender EXCEPT !.retry_count = retry_count, !.pc = "sleeping",
                             !.wait = WaitTime(retry_count)]

RunnableUnlessSleeper(d) ==
    /\ d \in DOMAIN senders
    /\ senders[d].pc = "attempt"
    /\ \A e \in DOMAIN senders : senders[e].pc # "sleeping"

(* every destination has a task of its own; asyncio.sleep suspends that task only *)
Runnable(d) == d \in DOMAIN senders /\ senders[d].pc = "attempt"

(* a dispatch that looks the sender up with self.destinations[destination] *)
StartDispatchStrict(routed) ==
    IF DOMAIN routed \subseteq destinations
    THEN /\ routed_logs' = routed
         /\ senders' = [d \in DOMAIN routed |-> NewSender(routed[d])]
         /\ calls' = [d \in DOMAIN routed |-> <<>>]
         /\ phase' = "dispatch"
    ELSE /\ routed_logs' = routed
         /\ senders' = EmptyDict
         /\ calls' = EmptyDict
         /\ phase' = "raised"

(* _send_to_destinations up to the end of its `async with` body: one task *)
(* per destination that has a registered sender                           *)
StartDispatch(routed) ==
    LET served == DOMAIN routed \cap destinations IN
    /\ routed_logs' = routed
    /\ senders' = [d \in served |-> NewSender(routed[d])]
    /\ calls' = [d \in served |-> <<>>]
    /\ phase' = "dispatch"

----------------------------------------------------------------------------
(* The components a run does not use stay as constructed *)

RouterIdle ==
    /\ phase = "constructed"
    /\ config = <<>>
    /\ rules = <<>>
    /\ destinations = {}
    /\ metrics = EmptyDict
    /\ clock = 0
    /\ logs = <<>>
    /\ tasks = <<>>
    /\ routed_logs = EmptyDict
    /\ senders = EmptyDict
    /\ calls = EmptyDict
    /\ caller = "none"
    /\ result = EmptyDict

PipelineIdle ==
    /\ heap = EmptyDict
    /\ context = EmptyDict
    /\ step = 0
    /\ applied = <<>>
    /\ returned_log = NoResult

AnonymizeIdle ==
    /\ ip_log = EmptyDict
    /\ ip_transform = EmptyDict
    /\ ip_result = NoResult

MonitorIdle ==
    /\ performance_data = <<>>
    /\ prometheus = [processed_logs |-> <<>>, processing_time |-> <<>>,
                     error_counter |-> <<>>]
    /\ utcnow = 0
    /\ report = NoResult

KqlIdle ==
    /\ query = <<>>
    /\ optimized_query = <<>>
    /\ optimization_details = EmptyDict
    /\ kql_pc = "idle"
    /\ kql_calls = <<>>

GeoIdle ==
    /\ cache = EmptyDict
    /\ geo_tasks = <<>>
    /\ lookup_calls = <<>>

----------------------------------------------------------------------------
(* The state machine *)

Init ==
    /\ phase = "constructed"
    /\ config \in Configs
    /\ rules = <<>>
    /\ destinations \in SUBSET DestTypes
    /\ metrics = EmptyDict
    /\ clock = 0
    /\ logs = <<>>
    /\ tasks = <<>>
    /\ routed_logs = EmptyDict
    /\ senders = EmptyDict
    /\ calls = EmptyDict
    /\ caller = "none"
    /\ result = EmptyDict
    /\ PipelineIdle /\ AnonymizeIdle /\ MonitorIdle /\ KqlIdle /\ GeoIdle

(* _load_rules *)
LoadRules ==
    /\ phase = "constructed"
    /\ rules' = SortByPriority(AppendValid(rules, config))
    /\ phase' = "ready"
    /\ UNCHANGED <<config, destinations, metrics, clock, logs, tasks, routed_logs,
                   senders, calls, caller, result>>
    /\ UNCHANGED <<pipelineVars, anonymizeVars, monitorVars, kqlVars, geoVars>>

(* route_logs up to the end of the first `async with` body: a task per record *)
RouteLogs ==
    /\ phase = "ready"
    /\ \E batch \in Batches :
        /\ logs' = batch
        /\ tasks' = [i \in DOMAIN batch |-> [pc |-> "pending", result |-> NoResult]]
    /\ caller' = "route_logs"
    /\ phase' = "processing"
    /\ UNCHANGED <<config, rules, destinations, metrics, clock, routed_logs,
                   senders, calls, result>>
    /\ UNCHANGED <<pipelineVars, anonymizeVars, monitorVars, kqlVars, geoVars>>

(* one task running _process_log on its record, at hour `now` *)
ProcessLogAt(i, now) ==
    /\ phase = "processing"
    /\ tasks[i].pc = "pending"
    /\ clock' = now
    /\ LET log == logs[i]
           r == FindMatchingRule(rules, log)
           finish(task) == tasks' = TaskGroupSettle([tasks EXCEPT ![i] = task])
       IN  IF r = 0
           THEN finish(ProcessLogReturns(NoResult)) /\ UNCHANGED <<metrics, rules>>
           ELSE LET rule == rules[r]
                    transformed_log == ApplyTransformations(rule, log)
                IN  IF EnrichLogRaises(rule)
                    THEN finish(ProcessLogOnError) /\ UNCHANGED <<metrics, rules>>
                    ELSE LET enriched_log == EnrichLog(transformed_log, rule, now) IN
                         /\ metrics' = UpdateMetricsCounters(metrics, rule, enriched_log, now)
                         /\ IF JsonDumpsRaises(enriched_log)
                            THEN finish(ProcessLogOnError) /\ UNCHANGED rules
                            ELSE /\ rules' = [rules EXCEPT ![r] = UpdatePerformance(rule, now)]
                                 /\ IF Has(rule.destination, "type")
                                    THEN finish(ProcessLogReturns(
                                             <<rule.destination.type, enriched_log>>))
                                    ELSE finish(ProcessLogOnError)
    /\ UNCHANGED <<phase, config, destinations, logs, routed_logs,
                   senders, calls, caller, result>>
    /\ UNCHANGED <<pipelineVars, anonymizeVars, monitorVars, kqlVars, geoVars>>

(* time does not run backwards *)
ProcessLog(i) == \E now \in Hours : now >= clock /\ ProcessLogAt(i, now)

(* route_logs from the join of its task group to the end of the `async with` *)
(* body of _send_to_destinations: results grouped, sender tasks created      *)
JoinAndDispatch ==
    /\ phase = "processing"
    /\ Joined(tasks)
    /\ IF GroupRaised(tasks)
       THEN /\ phase' = "raised"
            /\ UNCHANGED <<routed_logs, senders, calls>>
       ELSE StartDispatch(GroupResults(tasks))
    /\ UNCHANGED <<config, rules, destinations, metrics, clock, logs, tasks,
                   caller, result>>
    /\ UNCHANGED <<pipelineVars, anonymizeVars, monitorVars, kqlVars, geoVars>>

(* _send_to_destinations called on its own with a map of batches *)
SendToDestinations ==
    /\ phase = "ready"
    /\ \E routed \in DirectMaps : StartDispatch(routed)
    /\ caller' = "send_to_destinations"
    /\ UNCHANGED <<config, rules, destinations, metrics, clock, logs, tasks, result>>
    /\ UNCHANGED <<pipelineVars, anonymizeVars, monitorVars, kqlVars, geoVars>>

(* one turn of the retry loop: `await sender(logs)` and what follows it *)
SendAttempt(d) ==
    /\ phase = "dispatch"
    /\ Runnable(d)
    /\ \E outcome \in SinkOutcomes :
        /\ calls' = [calls EXCEPT ![d] = Append(@, [logs |-> senders[d].logs,
                                                     outcome |-> outcome])]
        /\ senders' = TaskGroupSettle(
                          [senders EXCEPT ![d] = AfterAttempt(senders[d], outcome)])
    /\ UNCHANGED <<phase, config, rules, destinations, metrics, clock, logs, tasks,
                   routed_logs, caller, result>>
    /\ UNCHANGED <<pipelineVars, anonymizeVars, monitorVars, kqlVars, geoVars>>

(* asyncio.sleep(wait_time) is over; the loop condition is tested again *)
Wake(d) ==
    /\ phase = "dispatch"
    /\ d \in DOMAIN senders
    /\ senders[d].pc = "sleeping"
    /\ senders' = [senders EXCEPT ![d].pc =
                      IF LoopContinues(senders[d].retry_count) THEN "attempt" ELSE "exited"]
    /\ UNCHANGED <<phase, config, rules, destinations, metrics, clock, logs, tasks,
                   routed_logs, calls, caller, result>>
    /\ UNCHANGED <<pipelineVars, anonymizeVars, monitorVars, kqlVars, geoVars>>

(* the join of _send_to_destinations' task group, and route_logs' return *)
Return ==
    /\ phase = "dispatch"
    /\ Joined(senders)
    /\ IF GroupRaised(senders)
       THEN phase' = "raised" /\ UNCHANGED result
       ELSE IF caller = "route_logs"
            THEN phase' = "returned" /\ result' = ReturnValue(routed_logs)
            ELSE phase' = "dispatched" /\ UNCHANGED result
    /\ UNCHANGED <<config, rules, destinations, metrics, clock, logs, tasks,
                   routed_logs, senders, calls, caller>>
    /\ UNCHANGED <<pipelineVars, anonymizeVars, monitorVars, kqlVars, geoVars>>

Next ==
    \/ LoadRules
    \/ RouteLogs
    \/ \E i \in DOMAIN tasks : ProcessLog(i)
    \/ JoinAndDispatch
    \/ SendToDestinations
    \/ \E d \in DOMAIN senders : SendAttempt(d)
    \/ \E d \in DOMAIN senders : Wake(d)
    \/ Return

Spec == Init /\ [][Next]_vars

(* the same router over configurations with a malformed condition, every *)
(* destination type having a sink                                        *)
MatchInit ==
    /\ phase = "constructed"
    /\ config \in MatchConfigs
    /\ rules = <<>>
    /\ destinations = DestTypes
    /\ metrics = EmptyDict
    /\ clock = 0
    /\ logs = <<>>
    /\ tasks = <<>>
    /\ routed_logs = EmptyDict
    /\ senders = EmptyDict
    /\ calls = EmptyDict
    /\ caller = "none"
    /\ result = EmptyDict
    /\ PipelineIdle /\ AnonymizeIdle /\ MonitorIdle /\ KqlIdle /\ GeoIdle

MatchSpec == MatchInit /\ [][Next]_vars

(* route_logs on a batch whose tasks run on both sides of the end of an hour *)
ProcessLogLater(i) == \E now \in LaterHours : now >= clock /\ ProcessLogAt(i, now)

OrderNext ==
    \/ LoadRules
    \/ RouteLogs
    \/ \E i \in DOMAIN tasks : ProcessLogLater(i)
    \/ JoinAndDispatch
    \/ \E d \in DOMAIN senders : SendAttempt(d)
    \/ \E d \in DOMAIN senders : Wake(d)
    \/ Return

OrderSpec == MatchInit /\ [][OrderNext]_vars

----------------------------------------------------------------------------
(* _apply_transformations on its own, one turn of its loop at a time, over *)
(* records that hold nested dicts                                          *)

PipelineRule(steps) ==
    RoutingRule([name |-> "pipeline", conditions |-> <<>>, transformations |-> steps,
                 destination |-> [type |-> "Kafka"], priority |-> 0])

(* the context _process_log builds: transformed_log is log.copy(), a copy *)
(* of the top-level dict that shares the nested ones                      *)
PipelineInit ==
    /\ RouterIdle /\ AnonymizeIdle /\ MonitorIdle /\ KqlIdle /\ GeoIdle
    /\ \E input \in PipelineInputs, steps \in StepLists :
          /\ heap = input.heap
          /\ context = [original_log |-> input.log, transformed_log |-> input.log,
                        route |-> PipelineRule(steps)]
    /\ step = 1
    /\ applied = <<[log |-> context.transformed_log, heap |-> heap]>>
    /\ returned_log = NoResult

(* one turn of `for transform in context.route.transformations` *)
TransformStep ==
    /\ step \in DOMAIN context.route.transformations
    /\ LET transform == context.route.transformations[step]
           log_after == ApplyStep(context.transformed_log, transform)
           heap_after == StepHeap(context.transformed_log, transform)
       IN  /\ context' = [context EXCEPT !.transformed_log = log_after]
           /\ heap' = heap_after
           /\ applied' = Append(applied, [log |-> log_after, heap |-> heap_after])
    /\ step' = step + 1
    /\ UNCHANGED <<returned_log, routerVars, anonymizeVars, monitorVars, kqlVars, geoVars>>

(* `return context.transformed_log` *)
ApplyTransformationsReturn ==
    /\ step = Len(context.route.transformations) + 1
    /\ returned_log' = context.transformed_log
    /\ step' = 0
    /\ UNCHANGED <<heap, context, applied, routerVars, anonymizeVars, monitorVars, kqlVars, geoVars>>

PipelineNext == TransformStep \/ ApplyTransformationsReturn

PipelineSpec == PipelineInit /\ [][PipelineNext]_vars

----------------------------------------------------------------------------
(* AdvancedTransformations.transform_ip_anonymize                          *)
(* (src/src/python/log_router/transformations.py)                          *)

IpStrings == {"192.168.1.123", "10.0.0.5", "999.1.1.1", "2001:db8::1"}

IpFieldNames == {"SourceIp", "DestinationIp"}

(* log records: a host and, for some of the fields, a string *)
IpRecords ==
    {Put(r, "host", "h1") : r \in UNION {[S -> IpStrings] : S \in SUBSET IpFieldNames}}

(* steps: a list of field paths, or no `fields` key at all *)
IpTransforms ==
    {[type |-> "ip_anonymize"]}
        \cup {[type |-> "ip_anonymize", fields |-> fields] :
                  fields \in UNION {[1..n -> IpFieldNames] : n \in 0..MaxFields}}

(* ipaddress.ip_address(ip_str): the octets of a dotted quad, the groups of *)
(* an IPv6 address; an empty tuple where it raises ValueError               *)
IpAddress(ip_str) ==
    CASE ip_str = "192.168.1.123" -> [version |-> 4, parts |-> <<192, 168, 1, 123>>]
      [] ip_str = "10.0.0.5" -> [version |-> 4, parts |-> <<10, 0, 0, 5>>]
      [] ip_str = "2001:db8::1" -> [version |-> 6, parts |-> <<8193, 3512, 0, 0, 0, 0, 0, 1>>]
      [] OTHER -> [version |-> 0, parts |-> <<>>]

(* str(ip_network(ip/24, strict=False).network_address): the last octet is 0 *)
MaskedIPv4(parts) ==
    ToString(parts[1]) \o "." \o ToString(parts[2]) \o "." \o ToString(parts[3]) \o ".0"

(* str(ip_network(ip/64, strict=False).network_address): the low four groups *)
(* are 0, and str() writes them as `::`                                       *)
MaskedIPv6(parts) ==
    CASE parts[1] = 8193 /\ parts[2] = 3512 /\ parts[3] = 0 /\ parts[4] = 0 -> "2001:db8::"

(* AdvancedTransformations._get_nested_value is a stub: it returns None *)
AdvancedGetNestedValue(obj, path) == PyNone

(* AdvancedTransformations._set_nested_value is a stub: it writes nothing *)
AdvancedSetNestedValue(obj, path, value) == obj

(* one turn of `for field in fields` *)
AnonymizeField(result_log, field) ==
    LET ip_str == AdvancedGetNestedValue(result_log, field) IN
    IF ip_str = PyNone \/ ip_str = "" THEN result_log
    ELSE LET ip_obj == IpAddress(ip_str) IN
         CASE ip_obj.version = 4 ->
                AdvancedSetNestedValue(result_log, field, MaskedIPv4(ip_obj.parts))
           [] ip_obj.version = 6 ->
                AdvancedSetNestedValue(result_log, field, MaskedIPv6(ip_obj.parts))
           [] OTHER -> result_log

RECURSIVE AnonymizeFields(_, _)
AnonymizeFields(result_log, fields) ==
    IF fields = <<>> THEN result_log
    ELSE AnonymizeFields(AnonymizeField(result_log, Head(fields)), Tail(fields))

AnonymizeInit ==
    /\ RouterIdle /\ PipelineIdle /\ MonitorIdle /\ KqlIdle /\ GeoIdle
    /\ ip_log \in IpRecords
    /\ ip_transform \in IpTransforms
    /\ ip_result = NoResult

(* transform_ip_anonymize(log, transform, context) *)
TransformIpAnonymize ==
    /\ ip_result = NoResult
    /\ ip_result' = AnonymizeFields(ip_log, Get(ip_transform, "fields", <<>>))
    /\ UNCHANGED <<ip_log, ip_transform, routerVars, pipelineVars, monitorVars, kqlVars, geoVars>>

AnonymizeNext == TransformIpAnonymize

AnonymizeSpec == AnonymizeInit /\ [][AnonymizeNext]_vars

(***************************************************************************)
(* RouterMonitoring: record_metrics, generate_performance_report and       *)
(* _detect_anomalies.  Processing times are whole numbers of seconds and   *)
(* every mean, rate and variance is kept as an exact fraction, so that the *)
(* comparisons of the code are decided without rounding.                   *)
(***************************************************************************)
MaxEvents == 4
Instants == {0, 1}
Windows == {1}
Fraction(num, den) == <<num, den>>      \* den = 0 is pandas' NaN of an empty column

EventPool ==
    { [rule_name |-> "r", destination |-> "kafka", processing_time |-> 0, success |-> TRUE],
      [rule_name |-> "r", destination |-> "kafka", processing_time |-> 1, success |-> TRUE],
      [rule_name |-> "r", destination |-> "kafka", processing_time |-> 2, success |-> TRUE],
      [rule_name |-> "r", destination |-> "kafka", processing_time |-> 6, success |-> TRUE],
      [rule_name |-> "q", destination |-> "blob", processing_time |-> 1, success |-> TRUE],
      [rule_name |-> "q", destination |-> "blob", processing_time |-> 1, success |-> FALSE] }

(* Counter.labels(...).inc() *)
Inc(counter, labels) == Put(counter, labels, Get(counter, labels, 0) + 1)

(* Histogram.labels(...).observe(amount) *)
Observe(histogram, labels, amount) ==
    LET old == Get(histogram, labels, [count |-> 0, sum |-> 0])
    IN  Put(histogram, labels, [count |-> old.count + 1, sum |-> old.sum + amount])

MonitorInit ==
    /\ RouterIdle /\ PipelineIdle /\ AnonymizeIdle /\ KqlIdle /\ GeoIdle
    /\ MonitorIdle

(* the body of record_metrics *)
RecordEvent(event) ==
    /\ prometheus' =
          [processed_logs |->
              Inc(prometheus.processed_logs, <<event.rule_name, event.destination>>),
           processing_time |->
              Observe(prometheus.processing_time, <<event.rule_name>>,
                      event.processing_time),
           error_counter |->
              IF ~event.success
              THEN Inc(prometheus.error_counter, <<"processing", event.rule_name>>)
              ELSE prometheus.error_counter]
    /\ performance_data' =
          Append(performance_data,
                 [timestamp |-> utcnow,
                  rule_name |-> event.rule_name,
                  destination |-> event.destination,
                  processing_time |-> event.processing_time,
                  success |-> event.success])

RecordMetrics ==
    /\ report = NoResult
    /\ Len(performance_data) < MaxEvents
    /\ \E event \in EventPool : RecordEvent(event)
    /\ UNCHANGED <<utcnow, report>>
    /\ UNCHANGED <<routerVars, pipelineVars, anonymizeVars, kqlVars, geoVars>>

(* time passes between two calls *)
Tick ==
    /\ report = NoResult
    /\ utcnow + 1 \in Instants
    /\ utcnow' = utcnow + 1
    /\ UNCHANGED <<performance_data, prometheus, report>>
    /\ UNCHANGED <<routerVars, pipelineVars, anonymizeVars, kqlVars, geoVars>>

(* df[df['timestamp'] > datetime.utcnow() - time_window] *)
WindowFrame(time_window) ==
    LET Recent(row) == row.timestamp > utcnow - time_window
    IN  SelectSeq(performance_data, Recent)

(* df[df['rule_name'] == rule], without the filter *)
WholeFrame(df, rule) == df

(* df[df['rule_name'] == rule] *)
RuleFrame(df, rule) ==
    LET OfRule(row) == row.rule_name = rule
    IN  SelectSeq(df, OfRule)

RECURSIVE UniqueFrom(_, _, _)
UniqueFrom(df, column, seen) ==
    IF df = <<>> THEN seen
    ELSE LET value == Head(df)[column]
         IN  UniqueFrom(Tail(df), column,
                        IF \E n \in DOMAIN seen : seen[n] = value
                        THEN seen ELSE Append(seen, value))

(* df[column].unique(): the values in order of first appearance *)
Unique(df, column) == UniqueFrom(df, column, <<>>)

(* df['processing_time'].sum() *)
RECURSIVE SumTime(_)
SumTime(df) ==
    IF df = <<>> THEN 0 ELSE Head(df).processing_time + SumTime(Tail(df))

(* (df['processing_time'] ** 2).sum() *)
RECURSIVE SumSquares(_)
SumSquares(df) ==
    IF df = <<>> THEN 0
    ELSE Head(df).processing_time * Head(df).processing_time + SumSquares(Tail(df))

(* df['success'].sum() *)
RECURSIVE Successes(_)
Successes(df) ==
    IF df = <<>> THEN 0 ELSE (IF Head(df).success THEN 1 ELSE 0) + Successes(Tail(df))

(* df['success'].mean() * 100 *)
SuccessRate(df) == Fraction(100 * Successes(df), Len(df))

(* df['processing_time'].mean() *)
MeanTime(df) == Fraction(SumTime(df), Len(df))

(* df['processing_time'].std() squared: the sample variance (ddof = 1),    *)
(* NaN for fewer than two rows                                             *)
VarianceTime(df) ==
    Fraction(Len(df) * SumSquares(df) - SumTime(df) * SumTime(df),
             Len(df) * (Len(df) - 1))

(* df['processing_time'].quantile(0.95): linear interpolation between the  *)
(* two order statistics around position 0.95 * (n - 1)                     *)
Quantile95(df) ==
    IF df = <<>> THEN Fraction(0, 0)
    ELSE LET AtMost(amount) ==
                 Cardinality({i \in DOMAIN df : df[i].processing_time <= amount})
             Sorted(k) ==       \* the k-th smallest processing time
                 CHOOSE amount \in {df[i].processing_time : i \in DOMAIN df} :
                     /\ AtMost(amount) >= k
                     /\ \A i \in DOMAIN df :
                           df[i].processing_time < amount =>
                               AtMost(df[i].processing_time) < k
             position == 19 * (Len(df) - 1)
             lower == position \div 20
             rest == position % 20
         IN  IF rest = 0 THEN Fraction(20 * Sorted(lower + 1), 20)
             ELSE Fraction(20 * Sorted(lower + 1)
                             + rest * (Sorted(lower + 2) - Sorted(lower + 1)), 20)

(* processing_time > mean_time, the 3 * std_time term left out *)
AboveMean(df, row) ==
    /\ Len(df) >= 1
    /\ Len(df) * row.processing_time > SumTime(df)

(* row['processing_time'] > mean_time + 3 * std_time, squared and cleared  *)
(* of denominators; False against the NaN threshold of a one-row frame.    *)
(* A row exactly at the threshold needs eleven rows or more, so rounding   *)
(* of the floating point threshold decides no case with fewer rows.        *)
AboveThreshold(df, row) ==
    LET n == Len(df)
        excess == n * row.processing_time - SumTime(df)
    IN  /\ n >= 2
        /\ excess > 0
        /\ excess * excess * (n - 1) > 9 * n * (n * SumSquares(df) - SumTime(df) * SumTime(df))

(* success_rate < 95 *)
BelowSuccessThreshold(rule_df) ==
    /\ Len(rule_df) > 0
    /\ 100 * Successes(rule_df) < 95 * Len(rule_df)

RECURSIVE TimeAnomalies(_, _)
TimeAnomalies(df, rows) ==
    IF rows = <<>> THEN <<>>
    ELSE LET row == Head(rows)
         IN  (IF AboveThreshold(df, row)
              THEN << [type |-> "high_processing_time",
                       timestamp |-> row.timestamp,
                       rule_name |-> row.rule_name,
                       value |-> row.processing_time,
                       threshold |-> [mean |-> MeanTime(df),
                                      variance |-> VarianceTime(df)]] >>
              ELSE <<>>)
             \o TimeAnomalies(df, Tail(rows))

RECURSIVE RateAnomalies(_, _)
RateAnomalies(df, names) ==
    IF names = <<>> THEN <<>>
    ELSE LET rule == Head(names)
             rule_df == RuleFrame(df, rule)
         IN  (IF BelowSuccessThreshold(rule_df)
              THEN << [type |-> "low_success_rate",
                       rule_name |-> rule,
                       value |-> SuccessRate(rule_df),
                       threshold |-> 95] >>
              ELSE <<>>)
             \o RateAnomalies(df, Tail(names))

DetectAnomalies(df) ==
    TimeAnomalies(df, df) \o RateAnomalies(df, Unique(df, "rule_name"))

(* the loops over df['rule_name'].unique() and df['destination'].unique() *)
RECURSIVE GroupMetrics(_, _, _)
GroupMetrics(df, column, names) ==
    IF names = <<>> THEN EmptyDict
    ELSE LET InGroup(row) == row[column] = Head(names)
             group_df == SelectSeq(df, InGroup)
         IN  Put(GroupMetrics(df, column, Tail(names)), Head(names),
                 [total_logs |-> Len(group_df),
                  success_rate |-> SuccessRate(group_df),
                  avg_processing_time |-> MeanTime(group_df)])

(* the body of generate_performance_report: pd.DataFrame([]) has no        *)
(* 'timestamp' column, the KeyError is caught and {} is returned           *)
PerformanceReport(time_window) ==
    IF performance_data = <<>> THEN EmptyDict
    ELSE LET df == WindowFrame(time_window)
         IN  [timestamp |-> utcnow,
              time_window |-> time_window,
              overall_metrics |->
                  [total_logs |-> Len(df),
                   success_rate |-> SuccessRate(df),
                   avg_processing_time |-> MeanTime(df),
                   p95_processing_time |-> Quantile95(df)],
              rule_metrics |-> GroupMetrics(df, "rule_name", Unique(df, "rule_name")),
              destination_metrics |->
                  GroupMetrics(df, "destination", Unique(df, "destination")),
              anomalies |-> DetectAnomalies(df)]

GeneratePerformanceReport ==
    /\ report = NoResult
    /\ \E time_window \in Windows :
          report' = <<PerformanceReport(time_window)>>
    /\ UNCHANGED <<performance_data, prometheus, utcnow>>
    /\ UNCHANGED <<routerVars, pipelineVars, anonymizeVars, kqlVars, geoVars>>

MonitorNext ==
    \/ RecordMetrics
    \/ Tick
    \/ GeneratePerformanceReport

MonitorSpec == MonitorInit /\ [][MonitorNext]_vars

(***************************************************************************)
(* Long runs of record_metrics within one instant.  The sums, the variance *)
(* and the threshold of the report do not depend on the order of the rows, *)
(* so a run is recorded in ascending order of processing time.  The times  *)
(* are chosen to hold samples exactly five standard deviations above the   *)
(* mean of what precedes them: 44 after 0, 0, 0, 16 and 21 after fifteen   *)
(* times 0 and one 16.                                                     *)
(***************************************************************************)
MaxBurst == 17

BurstPool ==
    { [rule_name |-> "r", destination |-> "kafka", processing_time |-> t, success |-> TRUE] :
        t \in {0, 16, 21, 44} }

RecordAscending ==
    /\ report = NoResult
    /\ Len(performance_data) < MaxBurst
    /\ \E event \in BurstPool :
          /\ IF performance_data = <<>> THEN TRUE
             ELSE performance_data[Len(performance_data)].processing_time
                      <= event.processing_time
          /\ RecordEvent(event)
    /\ UNCHANGED <<utcnow, report>>
    /\ UNCHANGED <<routerVars, pipelineVars, anonymizeVars, kqlVars, geoVars>>

BurstNext ==
    \/ RecordAscending
    \/ GeneratePerformanceReport

BurstSpec == MonitorInit /\ [][BurstNext]_vars

(***************************************************************************)
(* KQLOptimizer.optimize_query.  A query is the sequence of its fragments; *)
(* "\n" is a line break, which the '.' of a regular expression does not    *)
(* cross.  _optimize_where_clauses and _reorder_joins are called but not   *)
(* defined in kql_optimizer.py; they are modelled from the unit tests.     *)
(***************************************************************************)
QueryPool ==
    { <<"T1">>,
      <<"T1", "|", "where TimeGenerated >", "ago(7d)">>,
      <<"T1", "|", "join", "(T2)", "on C">>,
      <<"T1", "|", "join", "kind=leftouter", "(T2)", "on C">>,
      <<"T1", "|", "JOIN", "(T2)", "on C">>,
      <<"T1", "|", "join", "T2", "on C">>,
      <<"T1", "|", "join", "T2", "on C", "|", "where TimeGenerated >", "ago(7d)">>,
      <<"T1", "|", "where F", "contains", "'v'">>,
      <<"T1", "|", "join", "(T2)", "on C", "|", "where F", "contains", "'v'">>,
      <<"T1", "|", "where TimeGenerated >", "ago(7d)", "|", "where F", "contains", "'v'">> }

(* (end_time - start_time) of _run_query_benchmark, in clock ticks *)
ExecutionTimes == {0, 1, 2}

NoOptimization == <<>>      \* a pass returning None for its detail

(* _optimize_time_window *)
OptimizeTimeWindowResult(q) ==
    IF \E i \in DOMAIN q : q[i] = "ago(7d)"         \* re.search(r'ago\(\d+d\)', query)
    THEN [query |-> q, optimization |-> NoOptimization]
    ELSE [query |-> <<"\n", "let timeframe = 1d;", "\n">> \o q
                    \o <<"\n", "|", "where TimeGenerated >", "ago(timeframe)", "\n">>,
          optimization |-> [type |-> "time_window",
                            description |-> "Added time window filter",
                            impact |-> "Reduces data scan range"]]

(* _reorder_joins, as the unit tests stand in for it: lambda q: q *)
ReorderJoins(q) == q

(* query.replace('join', 'join kind=innerunique') *)
RECURSIVE AddJoinHint(_)
AddJoinHint(q) ==
    IF q = <<>> THEN <<>>
    ELSE (IF Head(q) = "join" THEN <<"join", "kind=innerunique">> ELSE <<Head(q)>>)
         \o AddJoinHint(Tail(q))

(* _optimize_joins *)
OptimizeJoinsResult(q) ==
    LET HasJoin == \E i \in DOMAIN q : q[i] \in {"join", "JOIN"}    \* 'join' in query.lower()
        JoinThenParen ==                                            \* re.search(r'join.*\(', query)
            \E i \in DOMAIN q : \E j \in DOMAIN q :
                /\ i < j
                /\ q[i] = "join"
                /\ q[j] \in {"(T2)", "ago(7d)", "ago(timeframe)"}
                /\ \A k \in (i + 1)..(j - 1) : q[k] # "\n"
        reordered == IF JoinThenParen THEN ReorderJoins(q) ELSE q
        HasKind == \E i \in DOMAIN reordered :
                       reordered[i] \in {"kind=leftouter", "kind=innerunique"}
    IN  IF ~HasJoin THEN [query |-> q, optimization |-> NoOptimization]
        ELSE [query |-> IF HasKind THEN reordered ELSE AddJoinHint(reordered),
              optimization |->
                  [type |-> "join_optimization",
                   description |-> "Optimized join operations",
                   changes |->
                       (IF JoinThenParen
                        THEN <<"Reordered joins for optimal performance">> ELSE <<>>)
                       \o (IF HasKind THEN <<>>
                           ELSE <<"Added join hint for better performance">>)]]

(* _optimize_where_clauses, as the unit tests describe it: the query       *)
(* unchanged and no detail, or a rewritten query with a detail             *)
OptimizeWhereClausesResults(q) ==
    LET unchanged == [query |-> q, optimization |-> NoOptimization]
        rewritten == [query |-> [i \in DOMAIN q |-> IF q[i] = "contains" THEN "has" ELSE q[i]],
                      optimization |-> [type |-> "where_optimization"]]
    IN  IF \E i \in DOMAIN q : q[i] = "contains"
        THEN {unchanged, rewritten}
        ELSE {unchanged}

(* if opt: optimization_details['optimizations_applied'].insert(0, opt) *)
PrependIfAny(details, opt) ==
    IF opt = NoOptimization THEN details
    ELSE [details EXCEPT !.optimizations_applied = <<opt>> \o @]

(* if opt: optimization_details['optimizations_applied'].append(opt) *)
AppendIfAny(details, opt) ==
    IF opt = NoOptimization THEN details
    ELSE [details EXCEPT !.optimizations_applied = Append(@, opt)]

Call(method, received, returned) ==
    [method |-> method, received |-> received, returned |-> returned]

KqlInit ==
    /\ RouterIdle /\ PipelineIdle /\ AnonymizeIdle /\ MonitorIdle /\ GeoIdle
    /\ KqlIdle

OptimizeQuery ==
    /\ kql_pc = "idle"
    /\ \E q \in QueryPool :
          /\ query' = q
          /\ optimized_query' = q
          /\ optimization_details' = [original_query |-> q,
                                      optimizations_applied |-> <<>>,
                                      estimated_improvement |-> 0]
    /\ kql_pc' = "time_window"
    /\ UNCHANGED kql_calls
    /\ UNCHANGED <<routerVars, pipelineVars, anonymizeVars, monitorVars, geoVars>>

OptimizeTimeWindow ==
    /\ kql_pc = "time_window"
    /\ LET out == OptimizeTimeWindowResult(optimized_query)
       IN  /\ optimized_query' = out.query
           /\ optimization_details' = AppendIfAny(optimization_details, out.optimization)
           /\ kql_calls' = Append(kql_calls,
                                  Call("_optimize_time_window", optimized_query, out))
    /\ kql_pc' = "joins"
    /\ UNCHANGED query
    /\ UNCHANGED <<routerVars, pipelineVars, anonymizeVars, monitorVars, geoVars>>

OptimizeJoins ==
    /\ kql_pc = "joins"
    /\ LET out == OptimizeJoinsResult(optimized_query)
       IN  /\ optimized_query' = out.query
           /\ optimization_details' = AppendIfAny(optimization_details, out.optimization)
           /\ kql_calls' = Append(kql_calls, Call("_optimize_joins", optimized_query, out))
    /\ kql_pc' = "where_clauses"
    /\ UNCHANGED query
    /\ UNCHANGED <<routerVars, pipelineVars, anonymizeVars, monitorVars, geoVars>>

OptimizeWhereClauses ==
    /\ kql_pc = "where_clauses"
    /\ \E out \in OptimizeWhereClausesResults(optimized_query) :
          /\ optimized_query' = out.query
          /\ optimization_details' = AppendIfAny(optimization_details, out.optimization)
          /\ kql_calls' = Append(kql_calls,
                                 Call("_optimize_where_clauses", optimized_query, out))
    /\ kql_pc' = "estimate"
    /\ UNCHANGED query
    /\ UNCHANGED <<routerVars, pipelineVars, anonymizeVars, monitorVars, geoVars>>

(* _estimate_performance_improvement(query, optimized_query): both          *)
(* benchmarks, then the division, which raises ZeroDivisionError out of     *)
(* optimize_query when the first benchmark measured no time at all.         *)
(* round(., 2) changes none of the quotients of ExecutionTimes.             *)
EstimatePerformanceImprovement ==
    /\ kql_pc = "estimate"
    /\ \E original \in ExecutionTimes : \E optimized \in ExecutionTimes :
          /\ kql_calls' = kql_calls
                \o << Call("_run_query_benchmark", query, [execution_time |-> original]),
                      Call("_run_query_benchmark", optimized_query,
                           [execution_time |-> optimized]) >>
          /\ IF original = 0
             THEN /\ kql_pc' = "raised"
                  /\ UNCHANGED optimization_details
             ELSE /\ kql_pc' = "returned"
                  /\ optimization_details' =
                        [optimization_details EXCEPT !.estimated_improvement =
                            ((original - optimized) * 100) \div original]
    /\ UNCHANGED <<query, optimized_query>>
    /\ UNCHANGED <<routerVars, pipelineVars, anonymizeVars, monitorVars, geoVars>>

KqlNext ==
    \/ OptimizeQuery
    \/ OptimizeTimeWindow
    \/ OptimizeJoins
    \/ OptimizeWhereClauses
    \/ EstimatePerformanceImprovement

KqlSpec == KqlInit /\ [][KqlNext]_vars

----------------------------------------------------------------------------
(* _transform_geoip_enrich, run by the per-record tasks of one batch.      *)
(* _lookup_geoip is the call into the GeoIP database or service: it is     *)
(* awaited, so other tasks may run before it answers, and it may raise.    *)

GeoStep == [type |-> "geoip_enrich", ip_field |-> "src_ip"]

GeoLogs == {[src_ip |-> "10.0.0.1"], [src_ip |-> "10.0.0.2"], [src_ip |-> ""],
            [host |-> "h1"]}

GeoBatches == UNION {[1..n -> GeoLogs] : n \in 0..MaxBatch}

(* what the service knows about an address *)
GeoData(ip_address) == IF ip_address = "10.0.0.1" THEN "US" ELSE "DE"

(* the cache a batch may find: a dict, empty after __init__ *)
InitialCaches == {EmptyDict, "10.0.0.1" :> GeoData("10.0.0.1")}

(* how one _lookup_geoip call may end *)
LookupOutcomes == {"answer", "raise"}

(* `if ip_address:` *)
Truthy(value) == value # PyNone /\ value # ""

GeoInit ==
    /\ RouterIdle /\ PipelineIdle /\ AnonymizeIdle /\ MonitorIdle /\ KqlIdle
    /\ cache \in InitialCaches
    /\ \E batch \in GeoBatches :
          geo_tasks = [i \in DOMAIN batch |->
                          [pc |-> "pending", log |-> batch[i], result |-> NoResult]]
    /\ lookup_calls = <<>>

(* the transformer up to its first await: the address is read, the cache is *)
(* consulted, and on a miss _lookup_geoip is called                          *)
TransformGeoipEnrich(i) ==
    /\ geo_tasks[i].pc = "pending"
    /\ LET result_copy == geo_tasks[i].log
           ip_address == GetNestedValue(result_copy, GeoStep.ip_field)
       IN  IF ~Truthy(ip_address)
           THEN /\ geo_tasks' = [geo_tasks EXCEPT ![i].pc = "done",
                                                  ![i].result = <<result_copy>>]
                /\ UNCHANGED lookup_calls
           ELSE IF ip_address \in DOMAIN cache
                THEN /\ geo_tasks' =
                            [geo_tasks EXCEPT ![i].pc = "done",
                                 ![i].result = <<Put(result_copy, "_geo", cache[ip_address])>>]
                     /\ UNCHANGED lookup_calls
                ELSE /\ lookup_calls' = Append(lookup_calls, ip_address)
                     /\ geo_tasks' = [geo_tasks EXCEPT ![i].pc = "lookup"]
    /\ UNCHANGED cache
    /\ UNCHANGED <<routerVars, pipelineVars, anonymizeVars, monitorVars, kqlVars>>

(* _lookup_geoip answers: the answer is stored in the cache and in the record; *)
(* an exception is logged and the record is returned without _geo              *)
LookupGeoipReturns(i) ==
    /\ geo_tasks[i].pc = "lookup"
    /\ LET result_copy == geo_tasks[i].log
           ip_address == GetNestedValue(result_copy, GeoStep.ip_field)
       IN  \E outcome \in LookupOutcomes :
              IF outcome = "raise"
              THEN /\ geo_tasks' = [geo_tasks EXCEPT ![i].pc = "done",
                                                     ![i].result = <<result_copy>>]
                   /\ UNCHANGED cache
              ELSE LET geo_data == GeoData(ip_address) IN
                   /\ cache' = Put(cache, ip_address, geo_data)
                   /\ geo_tasks' =
                          [geo_tasks EXCEPT ![i].pc = "done",
                               ![i].result = <<Put(result_copy, "_geo", geo_data)>>]
    /\ UNCHANGED lookup_calls
    /\ UNCHANGED <<routerVars, pipelineVars, anonymizeVars, monitorVars, kqlVars>>

GeoNext ==
    \/ \E i \in DOMAIN geo_tasks : TransformGeoipEnrich(i)
    \/ \E i \in DOMAIN geo_tasks : LookupGeoipReturns(i)

GeoSpec == GeoInit /\ [][GeoNext]_vars

----------------------------------------------------------------------------
(* Rule loading on its own, over configurations that hold definitions the *)
(* RoutingRule constructor rejects                                        *)

LoadInit ==
    /\ PipelineIdle /\ AnonymizeIdle /\ MonitorIdle /\ KqlIdle /\ GeoIdle
    /\ phase = "constructed"
    /\ config \in LoadConfigs
    /\ rules = <<>>
    /\ destinations = {}
    /\ metrics = EmptyDict
    /\ clock = 0
    /\ logs = <<>>
    /\ tasks = <<>>
    /\ routed_logs = EmptyDict
    /\ senders = EmptyDict
    /\ calls = EmptyDict
    /\ caller = "none"
    /\ result = EmptyDict

LoadNext == LoadRules

LoadSpec == LoadInit /\ [][LoadNext]_vars


----------------------------------------------------------------------------
(* Vocabulary of the properties, stated without the routing code *)

(* a condition holds when it carries a field, an operator and a value *)
ConditionHolds(condition) == {"field", "operator", "value"} \subseteq DOMAIN condition

(* the positions in self.rules of the enabled rules whose conditions all hold *)
Matching(log) ==
    {k \in DOMAIN rules :
        /\ rules[k].enabled
        /\ \A c \in DOMAIN rules[k].conditions : ConditionHolds(rules[k].conditions[c])}

FirstMatch(log) ==
    LET matching == Matching(log) IN
    IF matching = {} THEN 0
    ELSE CHOOSE k \in matching : \A j \in matching : k <= j

(* the record as rule k's own steps leave it *)
TransformedBy(k, log) == ApplySteps(log, rules[k].transformations)

(* a record the metrics update cannot serialize once rule k's steps have run *)
FailsUnder(k, log) ==
    LET transformed == TransformedBy(k, log) IN
    \E key \in DOMAIN transformed : transformed[key] \in NonSerializable

Fails(log) == LET k == FirstMatch(log) IN k # 0 /\ FailsUnder(k, log)

RoutedTasks == {i \in DOMAIN tasks : tasks[i].result # NoResult}
RoutedTo(d) == {i \in RoutedTasks : tasks[i].result[1] = d}

Occurrences(seq, x) == Cardinality({i \in DOMAIN seq : seq[i] = x})

LastCall(d) == calls[d][Len(calls[d])]
AllRaised(d) == \A n \in DOMAIN calls[d] : calls[d][n].outcome = "raise"

----------------------------------------------------------------------------
(* C1: _process_log uses the first enabled rule, in rule-list order, whose  *)
(* conditions all hold: the record carries that rule's name, is transformed *)
(* by that rule's steps only and is grouped under that rule's destination   *)
(* type only; a disabled rule is never selected; when no enabled rule       *)
(* matches the record appears under no destination.                         *)
C1_FirstMatchOnly ==
    /\ \A i \in DOMAIN tasks :
          tasks[i].pc = "done" =>
              LET k == FirstMatch(logs[i])
                  res == tasks[i].result
              IN  /\ k = 0 => res = NoResult
                  /\ (k # 0 /\ ~FailsUnder(k, logs[i])) => res # NoResult
                  /\ res # NoResult =>
                        /\ k # 0
                        /\ rules[k].enabled
                        /\ res[1] = rules[k].destination.type
                        /\ res[2]["_metadata"].route_name = rules[k].name
                        /\ Pop(res[2], "_metadata") = TransformedBy(k, logs[i])
    /\ (caller = "route_logs" /\ phase \in {"dispatch", "returned"}) =>
          /\ DOMAIN routed_logs = {tasks[i].result[1] : i \in RoutedTasks}
          /\ \A d \in DOMAIN routed_logs :
                /\ Len(routed_logs[d]) = Cardinality(RoutedTo(d))
                /\ \A i \in RoutedTo(d) :
                      Occurrences(routed_logs[d], tasks[i].result[2]) >= 1

(* a record routed by a rule that is not the first of the list, past a rule *)
(* that is disabled or does not match, while a later rule matches as well   *)
C1_Witness ==
    \E i \in DOMAIN tasks :
        /\ tasks[i].pc = "done"
        /\ tasks[i].result # NoResult
        /\ FirstMatch(logs[i]) > 1
        /\ \E j \in Matching(logs[i]) :
              /\ j > FirstMatch(logs[i])
              /\ rules[j].destination.type # tasks[i].result[1]

(* C2: after _load_rules the rule list is in non-decreasing priority order *)
(* and rules of equal priority keep the order they had in the configuration *)
PositionInConfig(name) == CHOOSE i \in DOMAIN config : config[i].name = name

C2_SortedStable ==
    phase # "constructed" =>
        \A i, j \in DOMAIN rules :
            i < j =>
                /\ rules[i].priority <= rules[j].priority
                /\ rules[i].priority = rules[j].priority =>
                      PositionInConfig(rules[i].name) < PositionInConfig(rules[j].name)

(* a configuration that was out of order and holds two rules of one priority *)
C2_Witness ==
    /\ phase = "ready"
    /\ \E i, j \in DOMAIN config : i < j /\ config[i].priority > config[j].priority
    /\ \E i, j \in DOMAIN rules : i < j /\ rules[i].priority = rules[j].priority

(* C3: round trip.  When every record of the batch matches exactly one rule *)
(* and every step of that rule is the identity, route_logs returns exactly  *)
(* as many records as it was given, none lost and none twice, and each is   *)
(* its input record plus the _metadata entry.                               *)
IsIdentity(transform) == \A r \in RecordPool : ApplyStep(r, transform) = r

JsonRecord(log) == \A key \in DOMAIN log : log[key] \notin NonSerializable

RoundTripCase ==
    /\ phase = "returned"
    /\ \A i \in DOMAIN logs :
          /\ JsonRecord(logs[i])
          /\ Cardinality(Matching(logs[i])) = 1
          /\ LET steps == rules[FirstMatch(logs[i])].transformations IN
             \A t \in DOMAIN steps : IsIdentity(steps[t])

ResultSlots == {<<d, n>> : d \in DOMAIN result, n \in 1..MaxBatch + 1}
ResultRecords == {slot \in ResultSlots : slot[2] <= Len(result[slot[1]])}

C4_AlwaysFailing ==
    /\ phase # "raised"
    /\ \A d \in DOMAIN senders :
          /\ senders[d].pc # "raised"
          /\ Len(calls[d]) <= max_retries
          /\ (Finished(senders[d]) /\ AllRaised(d)) =>
                (Len(calls[d]) = max_retries /\ senders[d].pc = "gave_up")
          /\ senders[d].pc = "gave_up" => (AllRaised(d) /\ Len(calls[d]) = max_retries)

(* the call has returned after a sink raised max_retries times *)
C4_Witness ==
    /\ phase \in {"returned", "dispatched"}
    /\ \E d \in DOMAIN senders :
          senders[d].pc = "gave_up" /\ Len(calls[d]) = max_retries /\ AllRaised(d)

(* C5: a sink that raises on its first k < max_retries invocations and then *)
(* succeeds is invoked exactly k + 1 times, the delivery succeeds with k    *)
(* retries counted, and the sink is not invoked again; after k failures     *)
(* with k < max_retries the loop always goes on to another attempt.         *)
C5_SucceedsAfterRetries ==
    \A d \in DOMAIN senders :
        LET n == Len(calls[d]) IN
        /\ \A m \in 1..(n - 1) : calls[d][m].outcome = "raise"
        /\ (n > 0 /\ LastCall(d).outcome = "ok") =>
              /\ senders[d].pc = "sent"
              /\ senders[d].retry_count = n - 1
              /\ n - 1 < max_retries
        /\ (AllRaised(d) /\ n < max_retries) => senders[d].pc \in {"attempt", "sleeping"}
        /\ (AllRaised(d) /\ n < max_retries) => senders[d].retry_count = n

(* a delivery that succeeds on the last attempt allowed *)
C5_Witness ==
    \E d \in DOMAIN senders :
        /\ senders[d].pc = "sent"
        /\ Len(calls[d]) = max_retries
        /\ LastCall(d).outcome = "ok"
        /\ senders[d].retry_count = max_retries - 1

(* C6: in one _send_to_destinations call a destination's failures, retries *)
(* and sleeps never cancel or block another destination: no sender task is *)
(* cancelled, a task that is due to call its sink or to wake can always do *)
(* so whatever the others are doing, and when the call ends every          *)
(* destination with a registered sink has had its sink invoked with its    *)
(* own batch, successfully if the sink worked.                             *)
C6_DestinationsIndependent ==
    /\ \A d \in DOMAIN senders : senders[d].pc \notin {"cancelled", "raised"}
    /\ phase = "dispatch" =>
          \A d \in DOMAIN senders :
              /\ senders[d].pc = "attempt" => ENABLED SendAttempt(d)
              /\ senders[d].pc = "sleeping" => ENABLED Wake(d)
    /\ phase \in {"dispatch", "returned", "dispatched"} =>
          /\ DOMAIN senders = DOMAIN routed_logs \cap destinations
          /\ \A d \in DOMAIN senders :
                \A n \in DOMAIN calls[d] : calls[d][n].logs = routed_logs[d]
    /\ phase \in {"returned", "dispatched"} =>
          \A d \in DOMAIN senders :
              /\ calls[d] # <<>>
              /\ LastCall(d).outcome = "ok" => senders[d].pc = "sent"

(* one destination has delivered while another is still in backoff *)
C6_Witness ==
    \E a, b \in DOMAIN senders :
        /\ a # b
        /\ senders[a].pc = "sleeping"
        /\ senders[b].pc = "sent"
        /\ LastCall(b).outcome = "ok"
        /\ LastCall(b).logs = routed_logs[b]

StripTime(log) == [log EXCEPT !["_metadata"].routing_time = 0]

Expected(log) ==
    LET k == FirstMatch(log) IN EnrichLog(TransformedBy(k, log), rules[k], 0)

ExpectedAt(log_list, d) ==
    LET goes(log) == LET k == FirstMatch(log) IN
                     k # 0 /\ rules[k].destination.type = d
        kept == SelectSeq(log_list, goes)
    IN  [n \in DOMAIN kept |-> Expected(kept[n])]

WithoutFailing(log_list) ==
    LET sound(log) == ~Fails(log) IN SelectSeq(log_list, sound)

C8_RecordIsolation ==
    /\ phase # "raised"
    /\ \A i \in DOMAIN tasks :
          /\ tasks[i].pc \notin {"cancelled", "raised"}
          /\ (tasks[i].pc = "done" /\ Fails(logs[i])) => tasks[i].result = NoResult
    /\ phase = "returned" =>
          \A d \in DestTypes :
              LET got == Get(result, d, <<>>) IN
              [n \in DOMAIN got |-> StripTime(got[n])] = ExpectedAt(WithoutFailing(logs), d)

(* a returned batch in which one record failed and another was routed *)
C8_Witness ==
    /\ phase = "returned"
    /\ \E i, j \in DOMAIN tasks :
          /\ Fails(logs[i])
          /\ tasks[i].result = NoResult
          /\ tasks[j].result # NoResult
          /\ Occurrences(result[tasks[j].result[1]], tasks[j].result[2]) = 1

(* C9: join barrier.  In route_logs the grouping by destination and every *)
(* sink invocation happen only after all the per-record tasks of the      *)
(* batch have completed.                                                  *)
C9_JoinBarrier ==
    caller = "route_logs" =>
        /\ phase = "processing" =>
              (routed_logs = EmptyDict /\ senders = EmptyDict /\ calls = EmptyDict)
        /\ (routed_logs # EmptyDict \/ senders # EmptyDict
                \/ phase \in {"dispatch", "returned"}) =>
              \A i \in DOMAIN tasks : tasks[i].pc = "done"

(* a sink is being invoked for a batch of two records, both processed *)
C9_Witness ==
    /\ caller = "route_logs"
    /\ phase = "dispatch"
    /\ Len(tasks) >= 2
    /\ \E d \in DOMAIN calls : calls[d] # <<>>

(* C10: a sink invocation that returns false without raising is a failed *)
(* attempt for the retry loop: it is counted and retried, or ends the    *)
(* delivery as a permanent failure, like an invocation that raises.      *)
C10_FalseIsFailure ==
    \A d \in DOMAIN senders :
        (calls[d] # <<>> /\ LastCall(d).outcome = "false") =>
            /\ senders[d].pc \in {"attempt", "sleeping", "gave_up"}
            /\ senders[d].retry_count = Len(calls[d])

(* C11: a destination of the batch map that has no registered sink is     *)
(* dropped: no sender task and no sink invocation exist for it, the       *)
(* dispatch does not raise, and every destination of the same call that   *)
(* has a registered sink gets a task with its own batch and, by the end   *)
(* of the call, has had its sink invoked with that batch.                 *)
C11_UnregisteredDropped ==
    /\ phase # "raised"
    /\ phase \in {"dispatch", "dispatched", "returned"} =>
          \A d \in DOMAIN routed_logs :
              IF d \in destinations
              THEN /\ d \in DOMAIN senders
                   /\ senders[d].logs = routed_logs[d]
                   /\ phase # "dispatch" =>
                         (calls[d] # <<>> /\ calls[d][1].logs = routed_logs[d])
              ELSE d \notin DOMAIN senders /\ d \notin DOMAIN calls

(* a finished dispatch over a destination without a sink and one with a sink *)
C11_Witness ==
    /\ phase = "dispatched"
    /\ \E d \in DOMAIN routed_logs : d \notin destinations
    /\ \E e \in DOMAIN routed_logs :
          e \in destinations /\ calls[e] # <<>> /\ senders[e].pc = "sent"

(* C17: a rule definition that fails construction or validation is left   *)
(* out and loading goes on: after _load_rules the rule list holds exactly *)
(* the valid definitions of the configuration, each once and as it was    *)
(* defined, wherever the invalid ones stand in the list.                  *)
InvalidDefinitions == {CfgNoDestination, CfgUnknownField}
ValidPositions == {i \in DOMAIN config : config[i] \notin InvalidDefinitions}

UnknownOperators == {"frobnicate"}

HasUnknownOperator(rule) ==
    \E c \in DOMAIN rule.conditions :
        /\ Has(rule.conditions[c], "operator")
        /\ rule.conditions[c].operator \in UnknownOperators

C20_UnknownOperatorFailsClosed ==
    /\ phase # "raised"
    /\ \A i \in DOMAIN tasks :
          tasks[i].result # NoResult =>
              \A k \in DOMAIN rules :
                  rules[k].name = tasks[i].result[2]["_metadata"].route_name =>
                      ~HasUnknownOperator(rules[k])
----------------------------------------------------------------------------
(* Vocabulary of the pipeline properties *)

Steps == context.route.transformations

(* what a path holds in a record as a turn of the loop left it *)
ValueAt(snapshot, path) == GetFrom(snapshot.heap, snapshot.log, Split(path))

IsRename(transform) ==
    /\ Has(transform, "type") /\ transform.type = "field_rename"
    /\ Has(transform, "old_field") /\ Has(transform, "new_field")

IsPrefix(short, long) ==
    Len(short) <= Len(long) /\ \A n \in DOMAIN short : short[n] = long[n]

(* a step the loop cannot run: no type, a type that is not registered, or *)
(* a parameter its function reads is missing                              *)
StepFails(transform) ==
    \/ ~Has(transform, "type")
    \/ transform.type \notin {"field_rename", "field_mask", "field_extract", "field_combine",
                              "value_map", "timestamp_convert", "geoip_enrich", "regex_extract"}
    \/ transform.type = "field_rename" /\ ~({"old_field", "new_field"} \subseteq DOMAIN transform)
    \/ transform.type = "field_mask" /\ ~Has(transform, "field")

(* equal as Python values: dicts are compared by content, as deep as the *)
(* two heaps can nest                                                    *)
RECURSIVE SameValue(_, _, _, _, _)
SameValue(h1, v1, h2, v2, fuel) ==
    IF IsDict(h1, v1) /\ IsDict(h2, v2)
    THEN \/ fuel = 0
         \/ /\ DOMAIN h1[v1] = DOMAIN h2[v2]
            /\ \A k \in DOMAIN h1[v1] : SameValue(h1, h1[v1][k], h2, h2[v2][k], fuel - 1)
    ELSE ~IsDict(h1, v1) /\ ~IsDict(h2, v2) /\ v1 = v2

SameRecord(a, b) ==
    /\ DOMAIN a.log = DOMAIN b.log
    /\ \A k \in DOMAIN a.log :
          SameValue(a.heap, a.log[k], b.heap, b.log[k],
                    Cardinality(DOMAIN a.heap) + Cardinality(DOMAIN b.heap) + 1)

(* C12: when the source path of a rename step holds a value, the step      *)
(* yields a record in which the target path holds that value and the       *)
(* source path is absent, for dotted source paths as for top-level fields. *)
C12_RenameMoves ==
    \A i \in 1..(Len(applied) - 1) :
        LET transform == Steps[i] IN
        (/\ IsRename(transform)
         /\ ~IsPrefix(Split(transform.old_field), Split(transform.new_field))
         /\ ValueAt(applied[i], transform.old_field) # PyNone) =>
            /\ ValueAt(applied[i + 1], transform.new_field)
                   = ValueAt(applied[i], transform.old_field)
            /\ ValueAt(applied[i + 1], transform.old_field) = PyNone

(* C13: rename is idempotent after the first application: the same rename *)
(* step applied a second time leaves the record as the first left it.     *)
C13_RenameIdempotent ==
    \A i \in 1..(Len(applied) - 2) :
        (IsRename(Steps[i]) /\ Steps[i + 1] = Steps[i]) =>
            SameRecord(applied[i + 1], applied[i + 2])

(* C19: _apply_transformations runs the steps in declaration order, each   *)
(* on the record the step before returned; a step whose type is not        *)
(* registered or whose function raises leaves the working record as it was *)
(* and the later steps still run; what is returned is the record as the    *)
(* steps that worked left it, never the original record restored.          *)
C19_PartialApplication ==
    applied # <<>> =>
        /\ step # 0 => (Len(applied) = step /\ returned_log = NoResult)
        /\ step \in DOMAIN Steps => ENABLED TransformStep
        /\ context.transformed_log = applied[Len(applied)].log
        /\ heap = applied[Len(applied)].heap
        /\ \A i \in 1..(Len(applied) - 1) :
              LET transform == Steps[i]
                  before == applied[i].log
                  after == applied[i + 1].log
              IN  /\ StepFails(transform) => applied[i + 1] = applied[i]
                  /\ (transform = StepRenameHost /\ Has(before, "host")) =>
                        after = Put(Pop(before, "host"), "device", before.host)
                  /\ (transform = StepMaskSsn /\ Has(before, "ssn")) =>
                        after = Put(before, "ssn", Repeat("*", Len(before.ssn)))
        /\ step = 0 =>
              /\ Len(applied) = Len(Steps) + 1
              /\ returned_log = applied[Len(applied)].log

(* returned: a step changed the record, the next one failed, the one after *)
(* changed the record again, and both changes are in the result            *)
C19_Witness ==
    /\ step = 0
    /\ Len(applied) = 4
    /\ Steps[1] = StepRenameHost /\ applied[2].log # applied[1].log
    /\ StepFails(Steps[2])
    /\ Steps[3] = StepMaskSsn /\ applied[4].log # applied[3].log
    /\ Has(returned_log, "device") /\ returned_log.ssn = "***"
(* C14: transform_ip_anonymize writes a.b.c.0 to a listed field that holds *)
(* the valid IPv4 address a.b.c.d, and leaves a listed field that holds an *)
(* invalid address as it is.                                               *)
LastOctetZeroed(ip_str) ==
    CASE ip_str = "192.168.1.123" -> "192.168.1.0"
      [] ip_str = "10.0.0.5" -> "10.0.0.0"

ListedFields ==
    {ip_transform.fields[n] : n \in DOMAIN Get(ip_transform, "fields", <<>>)}

C14_AnonymizesIPv4 ==
    ip_result # NoResult =>
        \A field \in ListedFields \cap DOMAIN ip_log :
            /\ ip_log[field] \in {"192.168.1.123", "10.0.0.5"} =>
                  ip_result[field] = LastOctetZeroed(ip_log[field])
            /\ ip_log[field] = "999.1.1.1" => ip_result[field] = ip_log[field]

(* C15: in the performance report a rule is flagged low_success_rate       *)
(* exactly when its success rate over the events in the window is below    *)
(* 95%; a rule with K >= 1 successes and no failure in the window is shown *)
(* with success rate 100% and is not flagged.                              *)
Reported == report # NoResult /\ report[1] # EmptyDict

RowsInWindow(rule) ==
    {i \in DOMAIN performance_data :
        /\ performance_data[i].rule_name = rule
        /\ performance_data[i].timestamp > report[1].timestamp - report[1].time_window}

SucceededIn(rows) == {i \in rows : performance_data[i].success}

FlaggedLowSuccessRate(rule) ==
    \E n \in DOMAIN report[1].anomalies :
        /\ report[1].anomalies[n].type = "low_success_rate"
        /\ report[1].anomalies[n].rule_name = rule

ShowsHundredPercent(rule) ==
    /\ rule \in DOMAIN report[1].rule_metrics
    /\ report[1].rule_metrics[rule].success_rate[2] > 0
    /\ report[1].rule_metrics[rule].success_rate[1]
          = 100 * report[1].rule_metrics[rule].success_rate[2]

C15_LowSuccessRate ==
    Reported =>
        \A rule \in {event.rule_name : event \in EventPool} :
            LET rows == RowsInWindow(rule)
                total == Cardinality(rows)
                succeeded == Cardinality(SucceededIn(rows))
            IN  /\ FlaggedLowSuccessRate(rule)
                      <=> (total > 0 /\ 100 * succeeded < 95 * total)
                /\ (total >= 1 /\ succeeded = total) =>
                      ShowsHundredPercent(rule) /\ ~FlaggedLowSuccessRate(rule)

(* a report over a window with two successes of r and a success and a      *)
(* failure of q: q is flagged, r is shown at 100% and is not               *)
C15_Witness ==
    /\ Reported
    /\ Cardinality(RowsInWindow("r")) = 2
    /\ SucceededIn(RowsInWindow("r")) = RowsInWindow("r")
    /\ ShowsHundredPercent("r") /\ ~FlaggedLowSuccessRate("r")
    /\ Cardinality(RowsInWindow("q")) = 2
    /\ Cardinality(SucceededIn(RowsInWindow("q"))) = 1
    /\ FlaggedLowSuccessRate("q")

(* C16 (as stated): whenever the last recorded event has a processing time *)
(* equal to the mean plus five standard deviations of the K events before  *)
(* it, the report lists it as high_processing_time.                        *)
Previous == SubSeq(performance_data, 1, Len(performance_data) - 1)

Injected == performance_data[Len(performance_data)]

AllInWindow ==
    \A i \in DOMAIN performance_data :
        performance_data[i].timestamp > report[1].timestamp - report[1].time_window

TotalOf(rows) == SumTime(rows)

SquaresOf(rows) == SumSquares(rows)

(* K * K * (K - 1) times the sample variance of the K previous events *)
SpreadOf(rows) == Len(rows) * SquaresOf(rows) - TotalOf(rows) * TotalOf(rows)

(* Injected.processing_time = mean + 5 * stddev of Previous, K >= 2, with  *)
(* the sample standard deviation: (K*t - sum)^2 * (K-1) = 25 * K * spread  *)
InjectedAtFiveSigma ==
    /\ Reported
    /\ Len(performance_data) >= 3
    /\ AllInWindow
    /\ LET K == Len(Previous)
           excess == K * Injected.processing_time - TotalOf(Previous)
       IN  /\ excess >= 0
           /\ excess * excess * (K - 1) = 25 * K * SpreadOf(Previous)

ListedHighProcessingTime(event) ==
    \E n \in DOMAIN report[1].anomalies :
        /\ report[1].anomalies[n].type = "high_processing_time"
        /\ report[1].anomalies[n].rule_name = event.rule_name
        /\ report[1].anomalies[n].timestamp = event.timestamp
        /\ report[1].anomalies[n].value = event.processing_time

C16_FiveSigmaListed ==
    InjectedAtFiveSigma => ListedHighProcessingTime(Injected)

(* C16 (amended): the event at mean plus five sample standard deviations   *)
(* of the K >= 2 events before it is listed as high_processing_time        *)
(* exactly when K >= 16 and those K processing times are not all equal:    *)
(* the threshold mean + 3 * stddev is computed over the window with the    *)
(* event itself in it.                                                     *)
C16_FiveSigmaListedFromSixteen ==
    InjectedAtFiveSigma =>
        (ListedHighProcessingTime(Injected)
            <=> (Len(Previous) >= 16 /\ SpreadOf(Previous) > 0))

(* sixteen events with mean 1 and standard deviation 4, then one of 21     *)
(* seconds, which the report lists                                         *)
C16_Witness ==
    /\ InjectedAtFiveSigma
    /\ Len(Previous) = 16
    /\ SpreadOf(Previous) > 0
    /\ Injected.processing_time = 21
    /\ ListedHighProcessingTime(Injected)

(* C18: optimize_query runs the time-window pass, then the joins pass,     *)
(* then the where-clauses pass, each on the query the pass before it       *)
(* returned; it returns the query of the where-clauses pass, estimates the *)
(* improvement between the original query and that query, and lists the    *)
(* detail of every pass that reported one in optimizations_applied, in     *)
(* pass order.                                                             *)
PassOrder ==
    <<"_optimize_time_window", "_optimize_joins", "_optimize_where_clauses",
      "_run_query_benchmark", "_run_query_benchmark">>

RECURSIVE ReportedDetails(_)
ReportedDetails(passes) ==
    IF passes = <<>> THEN <<>>
    ELSE (IF Head(passes).returned.optimization = NoOptimization THEN <<>>
          ELSE <<Head(passes).returned.optimization>>)
         \o ReportedDetails(Tail(passes))

----------------------------------------------------------------------------
(* C21: the value of a condition is optional.  A rule whose only condition *)
(* gives a field and the operator `exists` matches every record in which   *)
(* that field is present: such a record is routed by that rule or by a     *)
(* rule tried before it.                                                   *)
ExistsOnly(rule) ==
    /\ Len(rule.conditions) = 1
    /\ DOMAIN rule.conditions[1] = {"field", "operator"}
    /\ rule.conditions[1].operator = "exists"

C21_ValueIsOptional ==
    \A i \in DOMAIN tasks :
        \A k \in DOMAIN rules :
            ( /\ tasks[i].pc = "done"
              /\ rules[k].enabled
              /\ ExistsOnly(rules[k])
              /\ Has(logs[i], rules[k].conditions[1].field)
              /\ JsonRecord(logs[i]) )
            => /\ tasks[i].result # NoResult
               /\ \E j \in 1..k :
                     tasks[i].result[2]["_metadata"].route_name = rules[j].name

----------------------------------------------------------------------------
(* C22: in _find_matching_rule a rule whose condition evaluation raises is *)
(* treated as non-matching and the search goes on with the next rule: a    *)
(* later enabled rule whose conditions all hold is still returned, the     *)
(* rule that raised is never returned, and the error reaches neither the   *)
(* record's task nor the caller.                                           *)
EvaluationRaises(rule) ==
    \E c \in DOMAIN rule.conditions : ~Has(rule.conditions[c], "field")

AllHold(log, rule) ==
    \A c \in DOMAIN rule.conditions :
        /\ DOMAIN rule.conditions[c] = {"field", "operator", "value"}
        /\ rule.conditions[c].operator = "equals"
        /\ Has(log, rule.conditions[c].field)
        /\ log[rule.conditions[c].field] = rule.conditions[c].value

SelectedRule(i) ==
    CHOOSE k \in DOMAIN rules :
        rules[k].name = tasks[i].result[2]["_metadata"].route_name

C22_EvaluationErrorSkipsRule ==
    /\ phase # "raised"
    /\ \A i \in DOMAIN tasks :
          /\ tasks[i].pc \notin {"raised", "cancelled"}
          /\ tasks[i].result # NoResult => ~EvaluationRaises(rules[SelectedRule(i)])
          /\ (tasks[i].pc = "done" /\ JsonRecord(logs[i])) =>
                \A k \in DOMAIN rules :
                    ( /\ rules[k].enabled
                      /\ AllHold(logs[i], rules[k])
                      /\ \E j \in 1..(k - 1) :
                            rules[j].enabled /\ EvaluationRaises(rules[j]) )
                    => /\ tasks[i].result # NoResult
                       /\ SelectedRule(i) <= k

(* a record routed by the second or third rule of the list, the first rule *)
(* being enabled and raising on evaluation                                 *)
C22_Witness ==
    \E i \in DOMAIN tasks :
        /\ tasks[i].pc = "done"
        /\ tasks[i].result # NoResult
        /\ rules[1].enabled /\ EvaluationRaises(rules[1])
        /\ SelectedRule(i) > 1
        /\ AllHold(logs[i], rules[SelectedRule(i)])

----------------------------------------------------------------------------
(* C23: every record _process_log outputs carries _metadata whose          *)
(* route_name is the name of the matched rule and whose                    *)
(* transformations_applied lists, in declaration order, the types of the   *)
(* steps that were applied to the record; every matched record is          *)
(* enriched, whatever happened in the step chain.                          *)
WasApplied(transform) ==
    /\ Has(transform, "type")
    /\ transform.type \in Transformers
    /\ transform.type = "field_rename" =>
          {"old_field", "new_field"} \subseteq DOMAIN transform
    /\ transform.type = "field_mask" => Has(transform, "field")

AppliedTypes(transformations) ==
    LET applied_steps == SelectSeq(transformations, WasApplied)
    IN  [n \in DOMAIN applied_steps |-> applied_steps[n].type]

C23_MetadataListsApplied ==
    \A i \in DOMAIN tasks :
        LET k == FirstMatch(logs[i]) IN
        /\ (tasks[i].pc = "done" /\ k # 0 /\ ~FailsUnder(k, logs[i])) =>
              tasks[i].result # NoResult
        /\ tasks[i].result # NoResult =>
              /\ Has(tasks[i].result[2], "_metadata")
              /\ tasks[i].result[2]["_metadata"].route_name = rules[k].name
              /\ tasks[i].result[2]["_metadata"].transformations_applied
                    = AppliedTypes(rules[k].transformations)

----------------------------------------------------------------------------
(* C24: the original record is an immutable snapshot, nested mappings and  *)
(* nested-path steps included: whatever the steps do, the record that      *)
(* context.original_log (and the caller's input, the same object) denotes  *)
(* stays equal to the record as it was received.                           *)
C24_OriginalIsSnapshot ==
    SameRecord([log |-> context.original_log, heap |-> heap], applied[1])

----------------------------------------------------------------------------
(* C26: no metric increment is lost or left half-made: in every reachable  *)
(* state the total_logs of a time bucket equals the sum of the bucket's    *)
(* per-rule match counters, and once route_logs has returned total_logs    *)
(* has grown by exactly the number of records that were matched and        *)
(* processed without error, each rule's match counter and processed_logs   *)
(* by the number of those records that matched it.                         *)
RECURSIVE SumCounters(_, _)
SumCounters(counters, names) ==
    IF names = {} THEN 0
    ELSE LET name == CHOOSE n \in names : TRUE
         IN  counters[name] + SumCounters(counters, names \ {name})

MatchTotal(bucket) ==
    SumCounters(metrics[bucket], DOMAIN metrics[bucket] \ {"total_logs"})

TotalLogs == SumCounters([b \in DOMAIN metrics |-> Counter(metrics, b, "total_logs")],
                         DOMAIN metrics)

ProcessedBy(k) == {i \in RoutedTasks : FirstMatch(logs[i]) = k}

C26_IncrementsNeverLost ==
    /\ \A bucket \in DOMAIN metrics :
          Counter(metrics, bucket, "total_logs") = MatchTotal(bucket)
    /\ phase = "returned" =>
          /\ TotalLogs = Cardinality(RoutedTasks)
          /\ \A k \in DOMAIN rules :
                Get(rules[k].performance_metrics, "processed_logs", 0)
                    = Cardinality(ProcessedBy(k))

----------------------------------------------------------------------------
(* C27: by the time route_logs returns, every input record has reached     *)
(* exactly one of the terminal states Unmatched (no rule matched, the      *)
(* record was dropped), Delivered (the retry loop of its destination ended *)
(* with a sink call that returned) and DeliveryFailed (the record was      *)
(* grouped under a destination and was not delivered).                     *)
Unmatched(i) == FirstMatch(logs[i]) = 0 /\ i \notin RoutedTasks

Delivered(i) ==
    \E d \in DOMAIN senders : i \in RoutedTo(d) /\ senders[d].pc = "sent"

DeliveryFailed(i) == i \in RoutedTasks /\ ~Delivered(i)

C27_OneTerminalState ==
    phase = "returned" =>
        \A i \in DOMAIN logs :
            Cardinality({state \in {"Unmatched", "Delivered", "DeliveryFailed"} :
                            \/ state = "Unmatched" /\ Unmatched(i)
                            \/ state = "Delivered" /\ Delivered(i)
                            \/ state = "DeliveryFailed" /\ DeliveryFailed(i)}) = 1

----------------------------------------------------------------------------
(* C28: the attempts of one destination are sequential and separated by    *)
(* backoff.  A sink call is made only by a loop that is not asleep; a      *)
(* sleep starts only right after a raising call that is not the            *)
(* max_retries-th, lasts backoff_factor ** i after the i-th call and is    *)
(* longer than the sleep before it; the call after it is made only after   *)
(* that one sleep; a returning call and the last raising call end the loop *)
(* without a sleep.                                                        *)
IsPower(wait, i) ==
    wait[1] * Power(backoff_den, i) = wait[2] * Power(backoff_num, i)

Longer(wait, previous) == wait[1] * previous[2] > previous[1] * wait[2]

SlepSince(d) ==
    IF calls[d] = <<>> THEN senders[d].wait = <<0, 1>>
    ELSE IsPower(senders[d].wait, Len(calls[d]))

BackoffStep(d) ==
    LET before == senders[d]
        after == senders'[d]
        i == Len(calls'[d])
    IN  /\ calls'[d] # calls[d] =>
              /\ before.pc = "attempt"
              /\ Len(calls[d]) = i - 1
              /\ SlepSince(d)
              /\ after.pc = IF calls'[d][i].outcome # "raise" THEN "sent"
                            ELSE IF i = max_retries THEN "gave_up" ELSE "sleeping"
        /\ (after.pc = "sleeping" /\ before.pc # "sleeping") =>
              /\ calls'[d] # calls[d]
              /\ IsPower(after.wait, i)
              /\ Longer(after.wait, before.wait)
        /\ before.pc = "sleeping" =>
              /\ calls'[d] = calls[d]
              /\ after.wait = before.wait
              /\ after.pc \in {"sleeping", "attempt"}
        /\ after.pc # "sleeping" => after.wait = before.wait
        /\ before.pc \in {"sent", "gave_up"} => after = before

C28_BackoffBetweenAttempts ==
    [][\A d \in DOMAIN senders \cap DOMAIN senders' : BackoffStep(d)]_vars

C28_Witness ==
    \E d \in DOMAIN senders :
        /\ senders[d].pc = "gave_up"
        /\ Len(calls[d]) = max_retries
        /\ senders[d].wait = <<9, 4>>

----------------------------------------------------------------------------
(* C29: within the list of each destination the records stand in the order *)
(* of their input records, in whatever order the per-record tasks ran:     *)
(* the list handed to the senders and the list route_logs returns are the  *)
(* results of the tasks routed to that destination, by ascending input     *)
(* position.                                                               *)
InInputOrder(d) ==
    LET to_d(i) == i \in RoutedTo(d)
        positions == SelectSeq([i \in DOMAIN tasks |-> i], to_d)
    IN  [n \in DOMAIN positions |-> tasks[positions[n]].result[2]]

C29_InputOrderKept ==
    /\ phase \in {"dispatch", "returned"} =>
          /\ DOMAIN routed_logs = {d \in DestTypes : RoutedTo(d) # {}}
          /\ \A d \in DOMAIN routed_logs : routed_logs[d] = InInputOrder(d)
    /\ phase = "returned" =>
          \A d \in DOMAIN result : result[d] = InInputOrder(d)

C29_Witness ==
    /\ phase = "returned"
    /\ \E d \in DOMAIN result :
          /\ Len(result[d]) >= 2
          /\ Pop(result[d][1], "_metadata") # Pop(result[d][2], "_metadata")
          /\ result[d][1]["_metadata"].routing_time
                > result[d][2]["_metadata"].routing_time

----------------------------------------------------------------------------
(* C30: records are grouped by destination type.  Every type that has      *)
(* records and a registered sink gets exactly one retry loop, and no other *)
(* type gets one; every call of that loop, first or retry, receives the    *)
(* complete list of the type; the list holds every record routed to the    *)
(* type, whichever rule routed it, and no record of a rule that names      *)
(* another type.                                                           *)
RuleNamed(name) == CHOOSE k \in DOMAIN rules : rules[k].name = name

C30_OneListPerType ==
    phase \in {"dispatch", "returned", "dispatched"} =>
        /\ DOMAIN senders = DOMAIN routed_logs \cap destinations
        /\ DOMAIN calls = DOMAIN senders
        /\ \A d \in DOMAIN senders :
              /\ Len(calls[d]) <= max_retries
              /\ \A n \in DOMAIN calls[d] : calls[d][n].logs = routed_logs[d]
        /\ caller = "route_logs" =>
              \A d \in DOMAIN routed_logs :
                  /\ Len(routed_logs[d]) = Cardinality(RoutedTo(d))
                  /\ \A n \in DOMAIN routed_logs[d] :
                        LET name == routed_logs[d][n]["_metadata"].route_name
                        IN  rules[RuleNamed(name)].destination.type = d

C30_Witness ==
    /\ caller = "route_logs"
    /\ \E d \in DOMAIN senders :
          /\ Len(calls[d]) >= 2
          /\ Len(routed_logs[d]) >= 2
          /\ LastCall(d).logs = routed_logs[d]
          /\ \E e \in DestTypes \ DOMAIN routed_logs : e \in destinations

----------------------------------------------------------------------------
(* C25: the GeoIP cache is safe under concurrent per-record tasks: in      *)
(* every interleaving _lookup_geoip is called at most once for each        *)
(* address that was not in the cache, and the records of one address all   *)
(* receive the same geo data.                                              *)
AddressOf(i) == GetNestedValue(geo_tasks[i].log, GeoStep.ip_field)

====
